---- MODULE Spec2Model ----
(***************************************************************************)
(* Host-side job control of the printer firmware front-end:                *)
(*   klippy/extras/virtual_sdcard.py  VirtualSD   (job execution engine)   *)
(*   klippy/extras/pause_resume.py    PauseResume (pause orchestrator)     *)
(*   klippy/extras/gcode_move.py      GCodeMove   (coordinate state)       *)
(*                                                                         *)
(* The reactor is single-threaded and cooperative.  An action of this      *)
(* module is the code a greenlet runs between two points where it hands    *)
(* control back to the reactor (reactor.pause, or waiting for the g-code   *)
(* mutex).  Every object is a record; a method is an operator from the     *)
(* world record (all objects) to the world record, so nested calls are     *)
(* operator applications, as in the source.                                *)
(*                                                                         *)
(* Job files hold single-byte characters, so a character offset is a byte  *)
(* offset.  Positions are integers, in units of 1/UnitsPerMm mm; speeds    *)
(* are integers, in units of 1/SpeedScale mm/s.                            *)
(***************************************************************************)
EXTENDS Integers, Sequences, FiniteSets, TLC

\* ------------------------------------------------------------- bounds
\* Longest file content enumerated by InitBlocks.
MaxLen == 4
\* Largest block size enumerated (the code reads 8192 characters at a time).
MaxBlock == 3
\* External commands issued in one behaviour.
MaxCmds == 3
\* Lines of the long job file.
LongJob == 30
\* Lines of the checkpoint files enumerated by InitCkpt.
MaxCkptLines == 3
\* Commands of a stream handed to GCodeMove in SpecMove.
MaxMoves == 5
\* Lines of the job of SpecDeep, and external commands issued during it.
DeepJob == 56
MaxDeepCmds == 4
\* External commands issued to the pause orchestrator in SpecPause.
MaxPauseCmds == 4
\* Lines of a job file of SpecSkip, and lines dispatched in one behaviour.
MaxSkipFile == 3
MaxSkipLines == 6
\* Lines of a scanned file.
MaxScanLines == 3

\* ---------------------------------------------------------- constants
\* count_G1 threshold above which checkpoints are written.
G1Warmup == 20
\* A checkpoint is written when count is a multiple of this.
CkptEvery == 9
\* The metadata record is refreshed when count is a multiple of this.
MetaEvery == 29
\* Characters read from the job file at a time.
BlockSize == 8192
\* config recover_velocity default, mm/s.
RecoverVelocity == 50
\* Speeds are held in units of 1/6000 mm/s: a feedrate F (mm/min) at a speed
\* override of p percent is the integer F * p (speed_factor is (p/100)/60).
SpeedScale == 6000
\* Position units in a millimetre (the recovery restore shifts E by 0.5 mm).
UnitsPerMm == 2

NL == "\n"
None == "None"
NoErr == ""
\* A line of the checkpoint file: blank, or a record.
BlankLine == [kind |-> "blank", file_position |-> 0, base_position_e |-> 0]
\* A record cut short: to at most 10 characters (a fragment, which the
\* readers skip like a blank line) or to more (which they hand to eval).
FragmentLine == [kind |-> "fragment", file_position |-> 0, base_position_e |-> 0]
TruncatedLine == [kind |-> "truncated", file_position |-> 0, base_position_e |-> 0]
\* eval raised: the reader's try block is left.
ReadFailed == [kind |-> "failed", file_position |-> 0, base_position_e |-> 0]
\* The checkpoint file and the metadata record when they do not exist.
NoCkpt == [exists |-> FALSE, lines |-> <<BlankLine, BlankLine>>]
NoMeta == [exists |-> FALSE, file_path |-> None]
JobName == "job.gcode"
SdBusy == "SD busy"
UnknownState == "Unknown g-code state"
InvalidSpeed == "Invalid speed"
UnableToParse == "Unable to parse move"
\* An exception that is not a gcode.error (IOError, ValueError, ...).
Unexpected == "unexpected exception"
OutOfRange == "S must be above 0"

VARIABLES
    sd,     \* VirtualSD's fields
    rt,     \* the _last_reset_file threads: how many sleep, how many poll
    wh,     \* the frame of the running work_handler (its locals and position)
    pr,     \* PauseResume's fields
    gm,     \* GCodeMove's fields
    th,     \* the motion engine: commanded position, moves issued
    ps,     \* print_stats: the reported job state
    disk,   \* the job file, the checkpoint and metadata records, print_switch
    gc,     \* the g-code dispatcher: its mutex, the external command running
    hist    \* history: the lines dispatched, error sequences run, busy errors

vars == <<sd, rt, wh, pr, gm, th, ps, disk, gc, hist>>

\* ------------------------------------------------------------ helpers
Min(a, b) == IF a < b THEN a ELSE b

Max(S) == CHOOSE x \in S : \A y \in S : y <= x

\* The element of a one-element set.
Only(S) == CHOOSE x \in S : TRUE

Last(s) == s[Len(s)]

Front(s) == SubSeq(s, 1, Len(s) - 1)

Reverse(s) == [i \in 1..Len(s) |-> s[Len(s) + 1 - i]]

\* The position in data of its k-th line terminator.
Terminator(data, k) ==
    CHOOSE i \in 1..Len(data) :
        /\ data[i] = NL
        /\ Cardinality({j \in 1..(i - 1) : data[j] = NL}) = k - 1

\* data.split('\n'): the fragments between line terminators, the one after
\* the last terminator included (it is empty when data ends with one).
Split(data) ==
    LET n == Cardinality({i \in 1..Len(data) : data[i] = NL})
    IN  [k \in 1..(n + 1) |->
            SubSeq(data,
                   IF k = 1 THEN 1 ELSE Terminator(data, k - 1) + 1,
                   IF k = n + 1 THEN Len(data) ELSE Terminator(data, k) - 1)]

\* file.read(n) with the file's offset at cursor.
ReadBlock(content, cursor, n) ==
    IF cursor >= Len(content) THEN <<>>
    ELSE SubSeq(content, cursor + 1, Min(cursor + n, Len(content)))

\* ---------------------------------------------------------- the world
World ==
    [sd |-> sd, rt |-> rt, wh |-> wh, pr |-> pr, gm |-> gm, th |-> th, ps |-> ps,
     disk |-> disk, hist |-> hist, err |-> NoErr, cont |-> ""]

Commit(w) ==
    /\ sd' = w.sd
    /\ rt' = w.rt
    /\ wh' = w.wh
    /\ pr' = w.pr
    /\ gm' = w.gm
    /\ th' = w.th
    /\ ps' = w.ps
    /\ disk' = w.disk
    /\ hist' = w.hist

\* raise gcmd.error(msg): the rest of the command is skipped.
Raise(w, msg) == [w EXCEPT !.err = msg]

\* ------------------------------------------------- GCodeMove (gcode_move.py)
GCodeMoveInit ==
    [absolute_coord |-> TRUE, absolute_extrude |-> TRUE,
     base_position |-> <<0, 0, 0, 0>>,
     last_position |-> <<0, 0, 0, 0>>,
     homing_position |-> <<0, 0, 0, 0>>,
     speed |-> 25 * SpeedScale, speed_factor |-> 100, extrude_factor |-> 100,
     saved_states |-> <<>>]

\* The fields SAVE_GCODE_STATE copies.
SnapshotOf(g) ==
    [absolute_coord |-> g.absolute_coord,
     absolute_extrude |-> g.absolute_extrude,
     base_position |-> g.base_position,
     last_position |-> g.last_position,
     homing_position |-> g.homing_position,
     speed |-> g.speed, speed_factor |-> g.speed_factor,
     extrude_factor |-> g.extrude_factor]

\* toolhead.move(newpos, speed)
move_with_transform(w, pos, speed) ==
    [w EXCEPT !.th.position = pos, !.th.speed = speed, !.th.nmoves = @ + 1]

\* The index of an axis letter in a position.
AxisPos(axis) == CASE axis = "X" -> 1 [] axis = "Y" -> 2 [] axis = "Z" -> 3

\* An update of X, Y, Z that takes every value as absolute.
G1Axis_always_absolute(g, lp, params, axis) ==
    IF axis \notin DOMAIN params THEN lp
    ELSE [lp EXCEPT ![AxisPos(axis)] =
                       params[axis] + g.base_position[AxisPos(axis)]]

\* cmd_G1's update of one of X, Y, Z.
G1Axis(g, lp, params, axis) ==
    IF axis \notin DOMAIN params THEN lp
    ELSE IF ~g.absolute_coord
         THEN [lp EXCEPT ![AxisPos(axis)] = @ + params[axis]]
         ELSE [lp EXCEPT ![AxisPos(axis)] =
                            params[axis] + g.base_position[AxisPos(axis)]]

\* An update of E that looks at absolute_extrude alone.
G1Extrude_by_extrude_mode(g, lp, params) ==
    IF "E" \notin DOMAIN params THEN lp
    ELSE LET v == params["E"] * g.extrude_factor
         IN  IF ~g.absolute_extrude
             THEN [lp EXCEPT ![4] = @ + v]
             ELSE [lp EXCEPT ![4] = v + g.base_position[4]]

\* cmd_G1's update of E.  extrude_factor is held as a percentage, so the E
\* components of last_position and base_position are in hundredths of the
\* unit of the E values.
G1Extrude(g, lp, params) ==
    IF "E" \notin DOMAIN params THEN lp
    ELSE LET v == params["E"] * g.extrude_factor
         IN  IF ~g.absolute_coord \/ ~g.absolute_extrude
             THEN [lp EXCEPT ![4] = @ + v]
             ELSE [lp EXCEPT ![4] = v + g.base_position[4]]

\* The place of a letter in the order in which cmd_G1 converts the values.
LetterOrder(letter) ==
    CASE letter = "X" -> 1 [] letter = "Y" -> 2 [] letter = "Z" -> 3
      [] letter = "E" -> 4 [] letter = "F" -> 5 [] OTHER -> 6

\* The place of the letter whose text float() cannot convert, 0 when every
\* value of the line converts: params carries it under "unparseable".
BadLetter(params) ==
    IF "unparseable" \in DOMAIN params THEN params["unparseable"] ELSE 0

\* The letters cmd_G1 has converted when float() raises (all of them when
\* it does not).
Parsed(params) ==
    [l \in {k \in DOMAIN params :
                BadLetter(params) = 0 \/ LetterOrder(k) < BadLetter(params)}
        |-> params[l]]

\* G1: params maps the letters given on the line to their values.  The
\* values are applied to last_position one by one, so a ValueError or an
\* invalid F leaves the function with the earlier letters applied.
cmd_G1(w, params) ==
    LET g == w.gm
        given == Parsed(params)
        lp == G1Extrude(g, G1Axis(g, G1Axis(g, G1Axis(g, g.last_position,
                                         given, "X"), given, "Y"), given, "Z"),
                        given)
        w1 == [w EXCEPT !.gm.last_position = lp]
    IN  IF BadLetter(params) # 0 THEN Raise(w1, UnableToParse)
        ELSE IF "F" \notin DOMAIN params THEN move_with_transform(w1, lp, g.speed)
        ELSE IF params["F"] <= 0 THEN Raise(w1, InvalidSpeed)
        ELSE LET speed == params["F"] * g.speed_factor
             IN  move_with_transform([w1 EXCEPT !.gm.speed = speed], lp, speed)

cmd_M82(w) == [w EXCEPT !.gm.absolute_extrude = TRUE]

cmd_M83(w) == [w EXCEPT !.gm.absolute_extrude = FALSE]

cmd_G90(w) == [w EXCEPT !.gm.absolute_coord = TRUE]

cmd_G91(w) == [w EXCEPT !.gm.absolute_coord = FALSE]

\* An update of base_position that takes the E value as it is given.
G92Axis_unscaled(g, bp, offsets, axis, i) ==
    IF axis \notin DOMAIN offsets THEN bp
    ELSE [bp EXCEPT ![i] = g.last_position[i] - offsets[axis]]

\* cmd_G92's update of base_position for the axis at index i.
G92Axis(g, bp, offsets, axis, i) ==
    IF axis \notin DOMAIN offsets THEN bp
    ELSE LET offset == IF i = 4 THEN offsets[axis] * g.extrude_factor
                       ELSE offsets[axis]
         IN  [bp EXCEPT ![i] = g.last_position[i] - offset]

\* A G92 that moves base_position for the axes given and for no other.
cmd_G92_given_axes_only(w, offsets) ==
    LET g == w.gm
    IN  [w EXCEPT !.gm.base_position =
            G92Axis(g, G92Axis(g, G92Axis(g, G92Axis(g, g.base_position,
                offsets, "X", 1), offsets, "Y", 2), offsets, "Z", 3),
                offsets, "E", 4)]

\* A G92 that, without any axis, moves the origin of X, Y and Z only.
cmd_G92_rezero_xyz(w, offsets) ==
    LET g == w.gm
    IN  IF DOMAIN offsets \cap {"X", "Y", "Z", "E"} = {}
        THEN [w EXCEPT !.gm.base_position =
                [g.last_position EXCEPT ![4] = g.base_position[4]]]
        ELSE cmd_G92_given_axes_only(w, offsets)

\* G92: offsets maps the axis letters given to their values.
cmd_G92(w, offsets) ==
    LET g == w.gm
    IN  IF DOMAIN offsets \cap {"X", "Y", "Z", "E"} = {}
        THEN [w EXCEPT !.gm.base_position = g.last_position]
        ELSE [w EXCEPT !.gm.base_position =
                G92Axis(g, G92Axis(g, G92Axis(g, G92Axis(g, g.base_position,
                    offsets, "X", 1), offsets, "Y", 2), offsets, "Z", 3),
                    offsets, "E", 4)]

\* An M220 that changes the factor and leaves speed alone.
cmd_M220_factor_only(w, S) ==
    IF S <= 0 THEN Raise(w, OutOfRange)
    ELSE [w EXCEPT !.gm.speed_factor = S]

\* M220 S<percent>: speed / speed_factor, the feedrate last commanded, is
\* multiplied by the new factor.
cmd_M220(w, S) ==
    IF S <= 0 THEN Raise(w, OutOfRange)
    ELSE [w EXCEPT !.gm.speed = (w.gm.speed \div w.gm.speed_factor) * S,
                   !.gm.speed_factor = S]

\* An M221 that changes the factor and leaves base_position alone.
cmd_M221_no_rebase(w, S) ==
    IF S <= 0 THEN Raise(w, OutOfRange)
    ELSE [w EXCEPT !.gm.extrude_factor = S]

\* An M221 that keeps the logical E by moving last_position.
cmd_M221_moving_last(w, S) ==
    IF S <= 0 THEN Raise(w, OutOfRange)
    ELSE
    LET g == w.gm
        e_value == (g.last_position[4] - g.base_position[4]) \div g.extrude_factor
    IN  [w EXCEPT !.gm.last_position[4] = g.base_position[4] + e_value * S,
                  !.gm.extrude_factor = S]

\* M221 S<percent>: the logical E is computed with the old factor and
\* base_position[3] is moved so that the new factor gives the same one.
cmd_M221(w, S) ==
    IF S <= 0 THEN Raise(w, OutOfRange)
    ELSE
    LET g == w.gm
        last_e_pos == g.last_position[4]
        e_value == (last_e_pos - g.base_position[4]) \div g.extrude_factor
    IN  [w EXCEPT !.gm.base_position[4] = last_e_pos - e_value * S,
                  !.gm.extrude_factor = S]

\* A handler of the error event that is not ready and does nothing.
reset_last_position_not_ready(w) == w

\* reset_last_position, the handler of gcode:command_error: last_position
\* becomes the position the toolhead was last moved to.
reset_last_position(w) ==
    [w EXCEPT !.gm.last_position = w.th.position]

\* The command dispatcher sends gcode:command_error when a handler raises
\* the command error.
command_error(w) == IF w.err # NoErr THEN reset_last_position(w) ELSE w

\* A save that keeps one snapshot, the last one.
cmd_SAVE_GCODE_STATE_single(w, name) ==
    [w EXCEPT !.gm.saved_states = (name :> SnapshotOf(w.gm))]

\* saved_states is a dict: a function from the names saved so far.
cmd_SAVE_GCODE_STATE(w, name) ==
    [w EXCEPT !.gm.saved_states = (name :> SnapshotOf(w.gm)) @@ @]

\* A restore that shifts base_position[3] by the whole of last_position[3].
cmd_RESTORE_GCODE_STATE_absolute_e(w, name, move, move_speed) ==
    IF name \notin DOMAIN w.gm.saved_states THEN Raise(w, UnknownState)
    ELSE
    LET state == w.gm.saved_states[name]
        e_diff == w.gm.last_position[4]
        w1 == [w EXCEPT
                !.gm.absolute_coord = state.absolute_coord,
                !.gm.absolute_extrude = state.absolute_extrude,
                !.gm.base_position =
                    [state.base_position EXCEPT ![4] = @ + e_diff],
                !.gm.homing_position = state.homing_position,
                !.gm.speed = state.speed,
                !.gm.speed_factor = state.speed_factor,
                !.gm.extrude_factor = state.extrude_factor]
        lp == <<state.last_position[1], state.last_position[2],
                state.last_position[3], w.gm.last_position[4]>>
    IN  IF move
        THEN move_with_transform([w1 EXCEPT !.gm.last_position = lp],
                                 lp, move_speed)
        ELSE w1

\* A restore that takes base_position[3] as it was saved.
cmd_RESTORE_GCODE_STATE_no_e_diff(w, name, move, move_speed) ==
    IF name \notin DOMAIN w.gm.saved_states THEN Raise(w, UnknownState)
    ELSE
    LET state == w.gm.saved_states[name]
        e_diff == 0
        w1 == [w EXCEPT
                !.gm.absolute_coord = state.absolute_coord,
                !.gm.absolute_extrude = state.absolute_extrude,
                !.gm.base_position =
                    [state.base_position EXCEPT ![4] = @ + e_diff],
                !.gm.homing_position = state.homing_position,
                !.gm.speed = state.speed,
                !.gm.speed_factor = state.speed_factor,
                !.gm.extrude_factor = state.extrude_factor]
        lp == <<state.last_position[1], state.last_position[2],
                state.last_position[3], w.gm.last_position[4]>>
    IN  IF move
        THEN move_with_transform([w1 EXCEPT !.gm.last_position = lp],
                                 lp, move_speed)
        ELSE w1

\* A restore whose move goes to the position of the last move.
cmd_RESTORE_GCODE_STATE_move_in_place(w, name, move, move_speed) ==
    IF name \notin DOMAIN w.gm.saved_states THEN Raise(w, UnknownState)
    ELSE
    LET state == w.gm.saved_states[name]
        e_diff == w.gm.last_position[4] - state.last_position[4]
        w1 == [w EXCEPT
                !.gm.absolute_coord = state.absolute_coord,
                !.gm.absolute_extrude = state.absolute_extrude,
                !.gm.base_position =
                    [state.base_position EXCEPT ![4] = @ + e_diff],
                !.gm.homing_position = state.homing_position,
                !.gm.speed = state.speed,
                !.gm.speed_factor = state.speed_factor,
                !.gm.extrude_factor = state.extrude_factor]
        lp == w.gm.last_position
    IN  IF move
        THEN move_with_transform([w1 EXCEPT !.gm.last_position = lp],
                                 lp, move_speed)
        ELSE w1

\* A restore that falls back to absolute coordinates before it fails.
cmd_RESTORE_GCODE_STATE_lenient(w, name, move, move_speed) ==
    IF name \notin DOMAIN w.gm.saved_states
    THEN Raise([w EXCEPT !.gm.absolute_coord = TRUE], UnknownState)
    ELSE
    LET state == w.gm.saved_states[name]
        e_diff == w.gm.last_position[4] - state.last_position[4]
        w1 == [w EXCEPT
                !.gm.absolute_coord = state.absolute_coord,
                !.gm.absolute_extrude = state.absolute_extrude,
                !.gm.base_position =
                    [state.base_position EXCEPT ![4] = @ + e_diff],
                !.gm.homing_position = state.homing_position,
                !.gm.speed = state.speed,
                !.gm.speed_factor = state.speed_factor,
                !.gm.extrude_factor = state.extrude_factor]
        lp == <<state.last_position[1], state.last_position[2],
                state.last_position[3], w.gm.last_position[4]>>
    IN  IF move
        THEN move_with_transform([w1 EXCEPT !.gm.last_position = lp],
                                 lp, move_speed)
        ELSE w1

\* RESTORE_GCODE_STATE NAME=<name> MOVE=<move> MOVE_SPEED=<move_speed>
cmd_RESTORE_GCODE_STATE(w, name, move, move_speed) ==
    IF name \notin DOMAIN w.gm.saved_states THEN Raise(w, UnknownState)
    ELSE
    LET state == w.gm.saved_states[name]
        e_diff == w.gm.last_position[4] - state.last_position[4]
        w1 == [w EXCEPT
                !.gm.absolute_coord = state.absolute_coord,
                !.gm.absolute_extrude = state.absolute_extrude,
                !.gm.base_position =
                    [state.base_position EXCEPT ![4] = @ + e_diff],
                !.gm.homing_position = state.homing_position,
                !.gm.speed = state.speed,
                !.gm.speed_factor = state.speed_factor,
                !.gm.extrude_factor = state.extrude_factor]
        lp == <<state.last_position[1], state.last_position[2],
                state.last_position[3], w.gm.last_position[4]>>
    IN  IF move
        THEN move_with_transform([w1 EXCEPT !.gm.last_position = lp],
                                 lp, move_speed)
        ELSE w1

\* recordPrintFileName: the Job Metadata Record, overwritten in place.  Its
\* open() and json calls are not guarded: on a failing disk they raise.
recordPrintFileName(w, file_name) ==
    IF w.disk.fault = "write"
    THEN Raise([w EXCEPT !.hist.write_failed = @ + 1], Unexpected)
    ELSE
    [w EXCEPT !.disk.meta =
        [exists |-> TRUE,
         file_path |-> file_name,
         absolute_coord |-> w.gm.absolute_coord,
         absolute_extrude |-> w.gm.absolute_extrude,
         speed_factor |-> w.gm.speed_factor,
         extrude_factor |-> w.gm.extrude_factor]]

\* cmd_CX_SAVE_GCODE_STATE: sed replaces line line_pos of the checkpoint
\* file by the record.  sed is run by subprocess.call, whose exit status is
\* dropped: on a failing disk nothing is written and nothing is raised.
cmd_CX_SAVE_GCODE_STATE(w, file_position, line_pos) ==
    IF w.disk.fault = "write"
    THEN [w EXCEPT !.hist.write_failed = @ + 1]
    ELSE
    LET data == [kind |-> "record", file_position |-> file_position,
                 base_position_e |-> w.gm.base_position[4]]
    IN  [w EXCEPT !.disk.ckpt.lines[line_pos] = data,
                  !.hist.ckpt_writes = @ + 1,
                  !.hist.ckpt_at = Len(w.hist.dispatched),
                  !.hist.last_ckpt = data]

\* The record both readers of the checkpoint file select: the first line of
\* more than 10 characters, replaced by any later one with a greater
\* file_position.  Every such line is evaluated as a Python expression; a
\* record cut short is not one, and eval raises.
RECURSIVE NewestRecord(_, _)
NewestRecord(recs, info) ==
    IF recs = <<>> THEN info
    ELSE LET obj == Head(recs)
         IN  IF obj.kind \in {"blank", "fragment"}
             THEN NewestRecord(Tail(recs), info)
             ELSE IF obj.kind = "truncated" THEN ReadFailed
             ELSE IF info.kind = "blank" THEN NewestRecord(Tail(recs), obj)
             ELSE IF obj.file_position > info.file_position
                  THEN NewestRecord(Tail(recs), obj)
                  ELSE NewestRecord(Tail(recs), info)

\* state.get("file_position", 0) of the selected record.
CheckpointOffset(ckpt) ==
    LET info == NewestRecord(ckpt.lines, BlankLine)
    IN  IF info.kind = "blank" THEN 0 ELSE info.file_position

\* base_position_e of the newest checkpoint record (-1 mm when it has none).
RecordedBaseE(ckpt) ==
    LET info == NewestRecord(ckpt.lines, BlankLine)
    IN  IF info.kind = "blank" THEN -UnitsPerMm ELSE info.base_position_e

\* state['last_position'] of cmd_CX_RESTORE_GCODE_STATE.
RestoredPosition(w, XYZE) ==
    <<XYZE.X, XYZE.Y, XYZE.Z, XYZE.E + RecordedBaseE(w.disk.ckpt)>>

\* cmd_CX_RESTORE_GCODE_STATE up to its first move: the coordinate state is
\* rebuilt from the newest checkpoint record and the metadata record, and X
\* and Y are homed (G28 X0 Y0).
restore_fields(w, XYZE) ==
    LET meta == w.disk.meta
        base_position_e == RecordedBaseE(w.disk.ckpt)
        e_diff == w.gm.last_position[4] - RestoredPosition(w, XYZE)[4]
                     - (UnitsPerMm \div 2)
    IN  [w EXCEPT
            !.gm.absolute_coord = meta.absolute_coord,
            !.gm.base_position = <<0, 0, 0, base_position_e + e_diff>>,
            !.gm.homing_position = <<0, 0, 0, 0>>,
            !.gm.speed = 25 * SpeedScale,
            !.gm.speed_factor = meta.speed_factor,
            !.gm.extrude_factor = meta.extrude_factor,
            !.gm.last_position[1] = 0,
            !.gm.last_position[2] = 0,
            !.th.position[1] = 0,
            !.th.position[2] = 0]

\* cmd_CX_RESTORE_GCODE_STATE up to its G28 X0 Y0: the fields assigned from
\* the records.
restore_assigned(w, XYZE) ==
    LET meta == w.disk.meta
        base_position_e == RecordedBaseE(w.disk.ckpt)
        e_diff == w.gm.last_position[4] - RestoredPosition(w, XYZE)[4]
                     - (UnitsPerMm \div 2)
    IN  [w EXCEPT
            !.gm.absolute_coord = meta.absolute_coord,
            !.gm.base_position = <<0, 0, 0, base_position_e + e_diff>>,
            !.gm.homing_position = <<0, 0, 0, 0>>,
            !.gm.speed = 25 * SpeedScale,
            !.gm.speed_factor = meta.speed_factor,
            !.gm.extrude_factor = meta.extrude_factor]

\* toolhead.set_position, then the move to the restored position.
restore_position(w, state_last) ==
    LET lp == w.gm.last_position
        to == <<state_last[1], state_last[2], state_last[3], lp[4]>>
    IN  [w EXCEPT !.gm.last_position = to,
                  !.th.position = to,
                  !.th.speed = w.gm.speed,
                  !.th.nmoves = @ + 1]

\* cmd_CX_RESTORE_GCODE_STATE on a Cartesian printer, the records present;
\* XYZE is the position found in the job file.  (Each intermediate state is
\* bound as a value, so that it is computed once.)
cmd_CX_RESTORE_GCODE_STATE(w, XYZE) ==
    LET state_last == RestoredPosition(w, XYZE)
        to_xy == ("X" :> state_last[1]) @@ ("Y" :> state_last[2])
    IN  IF NewestRecord(w.disk.ckpt.lines, BlankLine) = ReadFailed
        THEN w  \* except Exception: logged, nothing restored
        ELSE
        Only({[r4 EXCEPT !.gm.absolute_extrude = w.disk.meta.absolute_extrude,
                         !.err = NoErr] :
                r4 \in {cmd_G1(r3, to_xy @@ ("F" :> 3000)) :
                r3 \in {restore_position(r2, state_last) :
                r2 \in {cmd_G1(r1, to_xy @@ ("F" :> 16000)) :
                r1 \in {restore_fields(w, XYZE)}}}}})

\* cmd_CX_RESTORE_GCODE_STATE when its G28 X0 Y0 raises: the fields are
\* assigned, the exception is logged and the function returns.
cmd_CX_RESTORE_GCODE_STATE_unhomed(w, XYZE) ==
    IF NewestRecord(w.disk.ckpt.lines, BlankLine) = ReadFailed
    THEN w
    ELSE [restore_assigned(w, XYZE) EXCEPT !.hist.unrestored = TRUE]

\* ------------------------------------------------ VirtualSD (virtual_sdcard.py)
VirtualSDInit(laser) ==
    [current_file |-> None, cursor |-> 0,
     file_position |-> 0, file_size |-> 0,
     must_pause_work |-> FALSE, cmd_from_sd |-> FALSE,
     next_file_position |-> 0, work_timer |-> FALSE,
     count |-> 0, count_G1 |-> 0,
     do_resume_status |-> FALSE, do_cancel_status |-> FALSE,
     cancel_print_state |-> FALSE, power_loss_pause_flag |-> FALSE,
     pause_flag |-> 1, is_laser_print |-> laser]

FrameIdle ==
    [pc |-> "idle", lines |-> <<>>, partial_input |-> <<>>,
     error_message |-> None, line_pos |-> 1, print_switch |-> FALSE]

is_active(w) == w.sd.work_timer

\* do_pause up to its polling loop.
do_pause(w) ==
    IF w.sd.work_timer
    THEN [w EXCEPT !.sd.must_pause_work = TRUE]
    ELSE w

\* The condition of do_pause's polling loop: the caller is suspended while
\* it holds.
PauseWaits(w) == w.sd.work_timer /\ ~w.sd.cmd_from_sd

\* A do_resume that registers the callback whether or not one is registered.
do_resume_unchecked(w) ==
    [w EXCEPT !.sd.must_pause_work = FALSE,
              !.sd.work_timer = TRUE,
              !.wh = [FrameIdle EXCEPT !.pc = "entry"],
              !.hist.loops = @ + 1]

do_resume(w) ==
    IF w.sd.work_timer
    THEN Raise(w, SdBusy)
    ELSE [w EXCEPT !.sd.must_pause_work = FALSE,
                   !.sd.work_timer = TRUE,
                   !.wh = [FrameIdle EXCEPT !.pc = "entry"],
                   !.hist.loops = @ + 1]

\* A removal that leaves the records on disk.
KeepRecords(w) == w

\* The records removed (do_cancel, and end of file in work_handler).
RemoveRecords(w) == [w EXCEPT !.disk.ckpt = NoCkpt, !.disk.meta = NoMeta]

\* do_cancel after its do_pause has returned (or was not needed).
do_cancel_rest(w) ==
    LET w1 == IF w.sd.current_file # None
              THEN [w EXCEPT !.sd.current_file = None, !.ps.state = "cancelled"]
              ELSE w
        w2 == [w1 EXCEPT !.sd.file_position = 0, !.sd.file_size = 0]
    IN  IF ~w2.sd.is_laser_print THEN RemoveRecords(w2) ELSE w2

\* do_cancel up to its do_pause.
do_cancel(w) ==
    LET w1 == [w EXCEPT !.sd.do_cancel_status = TRUE]
    IN  IF w1.sd.current_file # None
        THEN [do_pause(w1) EXCEPT !.cont = "do_cancel"]
        ELSE do_cancel_rest(w1)

\* _reset_file after its do_pause.
reset_file_rest(w) ==
    LET w1 == IF w.sd.current_file # None
              THEN [w EXCEPT !.sd.current_file = None]
              ELSE w
    IN  [w1 EXCEPT !.sd.file_position = 0, !.sd.file_size = 0,
                   !.ps.state = "standby"]

\* _reset_file up to its do_pause.
reset_file(w) ==
    IF w.sd.current_file # None
    THEN [do_pause(w) EXCEPT !.cont = "_reset_file"]
    ELSE reset_file_rest(w)

load_file(w, fname) ==
    [w EXCEPT !.sd.current_file = fname, !.sd.cursor = 0,
              !.sd.file_position = 0,
              !.sd.file_size = Len(w.disk.content)]

cmd_SDCARD_PRINT_FILE(w) ==
    IF w.sd.work_timer THEN Raise(w, SdBusy)
    ELSE do_resume(load_file(reset_file_rest(w), JobName))

cmd_M23(w) ==
    IF w.sd.work_timer THEN Raise(w, SdBusy)
    ELSE load_file(reset_file_rest(w), JobName)

cmd_M24(w) == do_resume(w)

cmd_M25(w) == [do_pause(w) EXCEPT !.cont = "M25"]

cmd_M26(w, pos) ==
    IF w.sd.work_timer THEN Raise(w, SdBusy)
    ELSE [w EXCEPT !.sd.file_position = pos]

cmd_SDCARD_RESET_FILE(w) ==
    IF w.sd.cmd_from_sd THEN Raise(w, "SDCARD_RESET_FILE cannot be run from the sdcard")
    ELSE reset_file(w)

\* ----------------------------------------------- PauseResume (pause_resume.py)
PauseResumeInit ==
    [is_paused |-> FALSE, sd_paused |-> FALSE, pause_command_sent |-> FALSE]

\* toolhead.move_queue.flush(): every move handed to the toolhead so far has
\* been carried out when it returns.
flush(w) == [w EXCEPT !.hist.flushed = w.th.nmoves]

\* send_pause_command after its do_pause.
send_pause_command_rest(w) ==
    flush([w EXCEPT !.pr.pause_command_sent = TRUE])

\* A send_pause_command that marks the pause without asking the engine.
send_pause_command_unasked(w, caller) ==
    IF ~w.pr.pause_command_sent
    THEN IF is_active(w)
         THEN send_pause_command_rest([w EXCEPT !.pr.sd_paused = TRUE])
         ELSE send_pause_command_rest([w EXCEPT !.pr.sd_paused = FALSE])
    ELSE w

\* send_pause_command up to its do_pause; cont names the caller to return to.
send_pause_command(w, caller) ==
    IF ~w.pr.pause_command_sent
    THEN IF is_active(w)
         THEN [do_pause([w EXCEPT !.pr.sd_paused = TRUE]) EXCEPT !.cont = caller]
         ELSE send_pause_command_rest([w EXCEPT !.pr.sd_paused = FALSE])
    ELSE w

\* cmd_PAUSE after send_pause_command.
cmd_PAUSE_rest(w) ==
    [cmd_SAVE_GCODE_STATE(w, "PAUSE_STATE") EXCEPT
        !.pr.is_paused = TRUE,
        !.hist.paused_at = Len(w.hist.dispatched)]

\* A PAUSE that does not look at is_paused.
cmd_PAUSE_again(w) ==
    LET w1 == send_pause_command(w, "PAUSE")
    IN  IF w1.cont # "" THEN w1 ELSE cmd_PAUSE_rest(w1)

cmd_PAUSE(w) ==
    IF w.pr.is_paused THEN w
    ELSE LET w1 == send_pause_command(w, "PAUSE")
         IN  IF w1.cont # "" THEN w1 ELSE cmd_PAUSE_rest(w1)

send_resume_command(w) ==
    LET w1 == IF w.pr.sd_paused
              THEN LET r == do_resume([w EXCEPT !.sd.do_resume_status = TRUE])
                   IN  IF r.err # NoErr THEN r
                       ELSE [r EXCEPT !.pr.sd_paused = FALSE]
              ELSE w
    IN  IF w1.err # NoErr THEN w1
        ELSE flush([w1 EXCEPT !.pr.pause_command_sent = FALSE])

cmd_RESUME(w) ==
    IF ~w.pr.is_paused THEN w
    ELSE LET w1 == cmd_RESTORE_GCODE_STATE(w, "PAUSE_STATE", TRUE,
                                           RecoverVelocity * SpeedScale)
         IN  IF w1.err # NoErr THEN w1
             ELSE LET w2 == send_resume_command(w1)
                  IN  IF w2.err # NoErr THEN w2
                      ELSE [w2 EXCEPT !.pr.is_paused = FALSE]

\* The parameters of M600 when the command gives none.
M600Defaults == [X |-> 0, Y |-> 0, Z |-> 10, E |-> -20]

\* The script of M600: G91, G1 E-5 F4000, G1 Z<z>, G90, G1 X<x> Y<y> F3000,
\* G0 E10 F6000, G0 E<e> F6000, G92 E0.  A command that raises ends it.
\* (Each intermediate state is bound as a value, so that it is computed once.)
M600Script(w, p) ==
    LET then(a, b) == IF a.err # NoErr THEN a ELSE b
    IN  Only({then(r7, cmd_G92(r7, "E" :> 0)) :
          r7 \in {then(r6, cmd_G1(r6, "E" :> p.E @@ "F" :> 6000)) :
          r6 \in {then(r5, cmd_G1(r5, "E" :> 10 @@ "F" :> 6000)) :
          r5 \in {then(r4, cmd_G1(r4, "X" :> p.X @@ "Y" :> p.Y @@ "F" :> 3000)) :
          r4 \in {then(r3, cmd_G90(r3)) :
          r3 \in {then(r2, cmd_G1(r2, "Z" :> p.Z)) :
          r2 \in {then(r1, cmd_G1(r1, "E" :> -5 @@ "F" :> 4000)) :
          r1 \in {cmd_G91(w)}}}}}}}})

\* cmd_M600 after send_pause_command.
cmd_M600_rest(w) ==
    LET w1 == cmd_SAVE_GCODE_STATE(cmd_SAVE_GCODE_STATE(w, "M600_state"),
                                   "PAUSE_STATE")
        w2 == M600Script(w1, M600Defaults)
    IN  IF w2.err # NoErr THEN w2
        ELSE [w2 EXCEPT !.pr.is_paused = TRUE,
                        !.hist.paused_at = Len(w.hist.dispatched)]

cmd_M600(w) ==
    IF w.pr.is_paused THEN w
    ELSE LET w1 == send_pause_command(w, "M600")
         IN  IF w1.cont # "" THEN w1 ELSE cmd_M600_rest(w1)

cmd_CLEAR_PAUSE(w) ==
    [w EXCEPT !.pr.is_paused = FALSE, !.pr.pause_command_sent = FALSE]

\* cmd_CANCEL_PRINT after do_cancel.
cmd_CANCEL_PRINT_rest(w) ==
    [cmd_CLEAR_PAUSE(w) EXCEPT !.sd.cancel_print_state = FALSE,
                               !.sd.pause_flag = 1]

cmd_CANCEL_PRINT(w) ==
    IF is_active(w) \/ w.pr.sd_paused
    THEN LET w1 == do_cancel(w)
         IN  IF w1.cont # "" THEN [w1 EXCEPT !.cont = "CANCEL_PRINT"]
             ELSE cmd_CANCEL_PRINT_rest(w1)
    ELSE cmd_CANCEL_PRINT_rest(w)

\* What a command does once the do_pause it stopped in has returned.
Continue(w) ==
    LET w0 == [w EXCEPT !.cont = ""]
    IN  CASE w.cont = "M25" -> w0
          [] w.cont = "PAUSE" -> cmd_PAUSE_rest(send_pause_command_rest(w0))
          [] w.cont = "M600" -> cmd_M600_rest(send_pause_command_rest(w0))
          [] w.cont = "CANCEL_PRINT" -> cmd_CANCEL_PRINT_rest(do_cancel_rest(w0))
          [] w.cont = "_reset_file" -> reset_file_rest(w0)
          [] OTHER -> w0

\* A command run to its end by a caller that do_pause does not suspend.
Finish(w) == IF w.cont # "" THEN Continue(w) ELSE w

\* ------------------------------------------------------- the job file
\* A line of the job file is read as the instruction its first character
\* names: G a G1 move (each following character adds 1 to its X value),
\* P PAUSE, C CANCEL_PRINT, R M24, J and S a command that repositions the
\* job; any other line does nothing.
IsG1(line) == line # <<>> /\ line[1] = "G"

G1Params(line) == IF Len(line) > 1 THEN ("X" :> (Len(line) - 1)) ELSE <<>>

get_file_position(w) == w.sd.next_file_position

set_file_position(w, pos) == [w EXCEPT !.sd.next_file_position = pos]

\* A command of another module that repositions the job while its line is
\* dispatched: J followed by k characters asks for the offset k, S followed
\* by k characters asks for the offset k characters after the next line.
reposition(w, line) ==
    IF line[1] = "J" THEN set_file_position(w, Len(line) - 1)
    ELSE set_file_position(w, get_file_position(w) + Len(line) - 1)

\* gcode.run_script(line) for a line of the job file.
run_script(w, line) ==
    IF line = <<>> THEN w
    ELSE CASE line[1] = "G" -> cmd_G1(w, G1Params(line))
           [] line[1] = "P" -> Finish(cmd_PAUSE(w))
           [] line[1] = "C" -> Finish(cmd_CANCEL_PRINT(w))
           [] line[1] = "R" -> cmd_M24(w)
           [] line[1] \in {"J", "S"} -> reposition(w, line)
           [] OTHER -> w

\* getXYZE as the jobs see it: a line of a job file that names a position
\* stands for a move that gives all four axes a non-zero value, of which the
\* jobs keep X, so the scan stops at the nearest such line before
\* file_position. In every job of the specifications such a line precedes a
\* positive file_position; the scan over the characters of a file, which
\* does not return otherwise, is getXYZE_pass.
getXYZE(content, file_position) ==
    LET ls == Split(SubSeq(content, 1, Min(file_position, Len(content))))
        named == {i \in 1..Len(ls) : IsG1(ls[i]) /\ Len(ls[i]) > 1}
    IN  [X |-> IF named = {} THEN 0 ELSE Len(ls[Max(named)]) - 1,
         Y |-> 0, Z |-> 0, E |-> 0]

\* _last_reset_file: started when a job completes, it sleeps 5 s and then
\* calls _reset_file.
last_reset_file(w) == [w EXCEPT !.rt.sleeping = @ + 1]

\* ------------------------------------------- work_handler (virtual_sdcard.py)
\* A work_handler that closes the job file when its loop has ended.
work_reset_closing(w) ==
    [w EXCEPT !.sd.count = 0, !.sd.count_G1 = 0,
              !.sd.do_resume_status = FALSE,
              !.sd.do_cancel_status = FALSE,
              !.sd.work_timer = FALSE,
              !.sd.cmd_from_sd = FALSE,
              !.sd.current_file = None,
              !.wh.pc = "idle",
              !.hist.loops = @ - 1]

\* What work_handler resets once its loop has ended.
work_reset(w) ==
    [w EXCEPT !.sd.count = 0, !.sd.count_G1 = 0,
              !.sd.do_resume_status = FALSE,
              !.sd.do_cancel_status = FALSE,
              !.sd.work_timer = FALSE,
              !.sd.cmd_from_sd = FALSE,
              !.wh.pc = "idle",
              !.hist.loops = @ - 1]

\* The end of work_handler, after its loop.
work_exit(w) ==
    LET w1 == work_reset(w)
    IN  IF w1.wh.error_message # None
        THEN [w1 EXCEPT !.ps.state = "error",
                        !.ps.message = w1.wh.error_message]
        ELSE IF w1.sd.current_file # None
        THEN [w1 EXCEPT !.ps.state = "paused"]
        ELSE last_reset_file([w1 EXCEPT !.ps.state = "complete"])

\* From the recordPrintFileName at the top of work_handler to its loop.
work_begin(w) ==
    LET w1 == IF w.wh.print_switch /\ ~w.sd.is_laser_print
              THEN recordPrintFileName(w, w.sd.current_file)
              ELSE w
    IN  IF w1.err # NoErr
        THEN \* raised outside every try: out of the callback
             [w1 EXCEPT !.err = NoErr, !.wh.pc = "crashed",
                        !.hist.loops = @ - 1]
        ELSE
        [w1 EXCEPT !.sd.cursor = w1.sd.file_position,
                   !.ps.state = "printing",
                   !.wh.partial_input = <<>>, !.wh.lines = <<>>,
                   !.wh.error_message = None, !.wh.line_pos = 1,
                   !.wh.pc = "loop"]

\* The branch of the recovery section that decides whether the coordinate
\* state is restored.
recovery_branch(w) ==
    LET drs == w.sd.do_resume_status
        pf == w.sd.pause_flag
    IN  IF pf = 2 /\ ~drs THEN work_begin(w)
        ELSE IF pf = 1 /\ drs THEN work_begin(w)
        ELSE IF w.sd.cancel_print_state
        THEN work_begin([w EXCEPT !.sd.pause_flag = 1])
        ELSE [w EXCEPT !.sd.pause_flag = 1, !.wh.pc = "restore"]

\* work_handler from its call to the first point where it waits.
work_entry(w) ==
    IF w.sd.current_file = None
    THEN \* os.path.basename(None) raises out of the callback
         [w EXCEPT !.wh.pc = "crashed", !.hist.loops = @ - 1]
    ELSE
    LET w1 == [w EXCEPT !.wh.print_switch = w.disk.print_switch]
    IN  IF /\ w1.wh.print_switch
           /\ w1.disk.ckpt.exists
           /\ w1.disk.meta.exists
           /\ ~w1.sd.is_laser_print
        THEN LET w2 == [w1 EXCEPT !.ps.state = "printing"]
             IN  IF NewestRecord(w2.disk.ckpt.lines, BlankLine) = ReadFailed
                 THEN \* except Exception: the recovery section is left
                      work_begin(w2)
                 ELSE IF ~w2.sd.do_resume_status
                 THEN [w2 EXCEPT
                        !.sd.file_position = CheckpointOffset(w2.disk.ckpt),
                        !.wh.pc = "preheat"]
                 ELSE recovery_branch(w2)
        ELSE work_begin([w1 EXCEPT !.ps.state = "printing"])

\* The recovery section from the return of M109.
work_heated(w) ==
    recovery_branch(IF w.sd.power_loss_pause_flag
                    THEN [w EXCEPT !.sd.pause_flag = 2]
                    ELSE w)

\* getXYZE and cmd_CX_RESTORE_GCODE_STATE, then on to the loop.
work_restore(w) ==
    Only({work_begin(r) :
            r \in {cmd_CX_RESTORE_GCODE_STATE(w, XYZE) :
                     XYZE \in {getXYZE(w.disk.content, w.sd.file_position)}}})

\* work_restore when the homing of cmd_CX_RESTORE_GCODE_STATE fails.
work_restore_unhomed(w) ==
    Only({work_begin(r) :
            r \in {cmd_CX_RESTORE_GCODE_STATE_unhomed(w, XYZE) :
                     XYZE \in {getXYZE(w.disk.content, w.sd.file_position)}}})

\* The checkpoint and metadata writes that precede the dispatch of a line.
\* A test that asks for a checkpoint at every multiple of CkptEvery.
checkpoint_due_no_warmup(w) ==
    w.wh.print_switch /\ w.sd.count % CkptEvery = 0

\* if print_switch and self.count_G1 >= 20 and self.count % 9 == 0
checkpoint_due(w) ==
    w.wh.print_switch /\ w.sd.count_G1 >= G1Warmup /\ w.sd.count % CkptEvery = 0

write_records(w) ==
    IF w.sd.is_laser_print THEN w
    ELSE
    LET on == w.wh.print_switch
        a == IF checkpoint_due(w)
             THEN IF ~w.disk.ckpt.exists /\ w.disk.fault = "write"
                  THEN \* open(path, "w") raises
                       Raise([w EXCEPT !.hist.write_failed = @ + 1], Unexpected)
                  ELSE
                  LET c == IF ~w.disk.ckpt.exists
                           THEN [w EXCEPT !.disk.ckpt =
                                    [exists |-> TRUE,
                                     lines |-> <<BlankLine, BlankLine>>]]
                           ELSE w
                  IN  [cmd_CX_SAVE_GCODE_STATE(c, c.sd.file_position,
                                               c.wh.line_pos)
                          EXCEPT !.wh.line_pos = IF @ = 1 THEN 2 ELSE 1]
             ELSE w
        b == IF a.err = NoErr /\ on /\ a.sd.count_G1 = G1Warmup - 1
             THEN recordPrintFileName(a, a.sd.current_file)
             ELSE a
    IN  IF b.err = NoErr /\ on /\ b.sd.count % MetaEvery = 0
        THEN recordPrintFileName(b, b.sd.current_file)
        ELSE b

\* An error handler that goes on to the assignment of file_position.
on_gcode_error_advancing(w) ==
    [w EXCEPT !.wh.error_message = w.err,
              !.hist.on_error = @ + 1,
              !.err = NoErr,
              !.sd.file_position = w.sd.next_file_position]

\* except self.gcode.error: the message is kept, on_error_gcode is run, and
\* the loop is left with file_position as it was.
on_gcode_error(w) ==
    [w EXCEPT !.wh.error_message = w.err,
              !.hist.on_error = @ + 1,
              !.err = NoErr]

\* The bare except of the loop: the exception is logged and the loop left.
on_exception(w) ==
    [w EXCEPT !.hist.faults = @ + 1, !.err = NoErr]

\* The pass of the loop that dispatches a line, up to run_script; the line
\* is handed to run_script unless a record write has raised.
before_dispatch(w) ==
    LET line == Last(w.wh.lines)
        w1 == [w EXCEPT !.sd.cmd_from_sd = TRUE,
                        !.wh.lines = Front(@),
                        !.sd.next_file_position =
                            w.sd.file_position + Len(line) + 1]
        w2 == write_records(w1)
    IN  IF w2.err # NoErr THEN w2
        ELSE [w2 EXCEPT !.hist.dispatched =
                Append(@, [pos |-> w.sd.file_position, line |-> line])]

\* A pass that goes on with the lines it has buffered after a reposition.
after_dispatch_keeping_buffer(w, w4) ==
    IF w4.err = Unexpected THEN work_exit(on_exception(w4))
    ELSE IF w4.err # NoErr THEN work_exit(on_gcode_error(w4))
    ELSE
    LET line == Last(w.wh.lines)
        w7 == [w4 EXCEPT
                !.sd.count = @ + 1,
                !.sd.count_G1 = IF @ < G1Warmup /\ IsG1(line) THEN @ + 1 ELSE @,
                !.sd.cmd_from_sd = FALSE,
                !.sd.file_position = w4.sd.next_file_position]
    IN  IF w4.sd.must_pause_work THEN work_exit(w7) ELSE w7

\* The same pass from the return of run_script to the loop's next test; w is
\* the state before the pass and w4 the state run_script returns.
after_dispatch(w, w4) ==
    IF w4.err = Unexpected THEN work_exit(on_exception(w4))
    ELSE IF w4.err # NoErr THEN work_exit(on_gcode_error(w4))
    ELSE
    LET line == Last(w.wh.lines)
        next_file_position == w.sd.file_position + Len(line) + 1
        moved == w4.sd.next_file_position # next_file_position
        w7 == [w4 EXCEPT
                !.sd.count = @ + 1,
                !.sd.count_G1 = IF @ < G1Warmup /\ IsG1(line) THEN @ + 1 ELSE @,
                !.sd.cmd_from_sd = FALSE,
                !.sd.file_position = w4.sd.next_file_position,
                !.sd.cursor = IF moved THEN w4.sd.next_file_position ELSE @,
                !.wh.lines = IF moved THEN <<>> ELSE @,
                !.wh.partial_input = IF moved THEN <<>> ELSE @]
    IN  IF w4.sd.must_pause_work THEN work_exit(w7) ELSE w7

\* One pass of the loop that dispatches a line.  (Each intermediate state is
\* bound as a value, so that it is computed once.)
work_dispatch(w) ==
    Only({after_dispatch(w, w4) :
            w4 \in {IF w3.err # NoErr THEN w3
                    ELSE run_script(w3, Last(w.wh.lines)) :
                      w3 \in {before_dispatch(w)}}})

\* One pass of the loop that reads a block.
work_read(w) ==
    LET data == ReadBlock(w.disk.content, w.sd.cursor, w.disk.block)
    IN  IF w.disk.fault = "read"
        THEN \* except: logging.exception("virtual_sdcard read"); break
             work_exit(on_exception(w))
        ELSE IF data = <<>>
        THEN work_exit(RemoveRecords([w EXCEPT !.sd.current_file = None]))
        ELSE LET ls == Split(data)
                 joined == <<w.wh.partial_input \o Head(ls)>> \o Tail(ls)
             IN  [w EXCEPT !.sd.cursor = @ + Len(data),
                           !.wh.partial_input = Last(joined),
                           !.wh.lines = Reverse(Front(joined))]

\* --------------------------------------------------- external commands
\* A command arriving on the control interface runs holding the g-code
\* mutex.  It runs to its end in one step unless do_pause suspends it; then
\* it keeps the mutex and ExtReturn runs the rest once do_pause returns.
\* An exception raised out of the timer callback ends the program.
GcodeIdle == [mutex |-> "free", ext |-> "idle"]

ExtRunUpTo(n, name, cmd) ==
    /\ wh.pc # "crashed"
    /\ gc.ext = "idle"
    /\ gc.mutex = "free"
    /\ Len(hist.cmds) < n
    /\ \E w \in {[cmd EXCEPT !.hist.cmds = Append(@, name)]} :
          IF w.cont # "" /\ PauseWaits(w)
          THEN /\ \E r \in {[w EXCEPT !.hist.ext_err = NoErr]} : Commit(r)
               /\ gc' = [mutex |-> "ext", ext |-> w.cont]
          ELSE /\ \E r \in {[Finish(w) EXCEPT !.hist.ext_err = w.err]} :
                     Commit(r)
               /\ gc' = gc

ExtReturn ==
    /\ wh.pc # "crashed"
    /\ gc.ext \notin {"idle", "hold"}
    /\ ~PauseWaits(World)
    /\ \E r \in {Continue([World EXCEPT !.cont = gc.ext])} : Commit(r)
    /\ gc' = [gc EXCEPT !.mutex = "free", !.ext = "idle"]

ExtRun(name, cmd) == ExtRunUpTo(MaxCmds, name, cmd)

SDCARD_PRINT_FILE == ExtRun("SDCARD_PRINT_FILE", cmd_SDCARD_PRINT_FILE(World))

M23 == ExtRun("M23", cmd_M23(World))

M24 == ExtRun("M24", cmd_M24(World))

M25 == ExtRun("M25", cmd_M25(World))

\* The offsets M26 is given: the start of the file and of its second line.
SecondLine(content) ==
    IF \E i \in 1..Len(content) : content[i] = NL
    THEN CHOOSE i \in 1..Len(content) :
            content[i] = NL /\ \A j \in 1..(i - 1) : content[j] # NL
    ELSE 0

M26 ==
    \E pos \in {0, SecondLine(disk.content)} :
        ExtRun("M26", cmd_M26(World, pos))

SDCARD_RESET_FILE == ExtRun("SDCARD_RESET_FILE", cmd_SDCARD_RESET_FILE(World))

PAUSE == ExtRun("PAUSE", cmd_PAUSE(World))

RESUME == ExtRun("RESUME", cmd_RESUME(World))

CLEAR_PAUSE == ExtRun("CLEAR_PAUSE", cmd_CLEAR_PAUSE(World))

CANCEL_PRINT == ExtRun("CANCEL_PRINT", cmd_CANCEL_PRINT(World))

\* Any other command that holds the mutex across reactor pauses.
HoldMutex ==
    /\ wh.pc # "crashed"
    /\ gc.ext = "idle"
    /\ gc.mutex = "free"
    /\ Len(hist.cmds) < MaxCmds
    /\ gc' = [mutex |-> "ext", ext |-> "hold"]
    /\ hist' = [hist EXCEPT !.cmds = Append(@, "hold"), !.ext_err = NoErr]
    /\ UNCHANGED <<sd, rt, wh, pr, gm, th, ps, disk>>

ReleaseMutex ==
    /\ wh.pc # "crashed"
    /\ gc.ext = "hold"
    /\ gc' = [gc EXCEPT !.mutex = "free", !.ext = "idle"]
    /\ UNCHANGED <<sd, rt, wh, pr, gm, th, ps, disk, hist>>

\* ------------------------------------------- the _last_reset_file thread
\* A sleeping thread wakes and calls _reset_file.  With a job file open and
\* the loop active its do_pause sets must_pause_work and then calls
\* reactor.pause from a thread that is not the reactor's: the thread either
\* polls until the loop has exited or ends there with an exception.
ResetWake ==
    /\ wh.pc # "crashed"
    /\ rt.sleeping > 0
    /\ \E w \in {[World EXCEPT !.rt.sleeping = @ - 1]} :
          IF w.sd.current_file # None /\ PauseWaits(w)
          THEN \/ Commit([do_pause(w) EXCEPT !.rt.polling = @ + 1])
               \/ Commit(do_pause(w))
          ELSE \E r \in {reset_file_rest(w)} : Commit(r)
    /\ UNCHANGED gc

ResetReturn ==
    /\ wh.pc # "crashed"
    /\ rt.polling > 0
    /\ ~PauseWaits(World)
    /\ \E r \in {reset_file_rest([World EXCEPT !.rt.polling = @ - 1])} :
          Commit(r)
    /\ UNCHANGED gc

\* ------------------------------------------------ the timer callback
\* A test of the mutex that never finds it held.
gcode_mutex_never == FALSE

\* gcode_mutex.test(): the mutex is held.
gcode_mutex_test == gc.mutex # "free"

\* With the mutex free the callback runs on into M140 and M109, holding it.
WorkEntry ==
    /\ wh.pc = "entry"
    /\ \E w \in {work_entry(World)} :
          IF w.wh.pc = "preheat" /\ gc.mutex = "free"
          THEN /\ Commit([w EXCEPT !.wh.pc = "heating"])
               /\ gc' = [gc EXCEPT !.mutex = "work"]
          ELSE /\ Commit(w)
               /\ UNCHANGED gc

\* The callback, blocked in run_script, is given the mutex.
WorkPreheat ==
    /\ wh.pc = "preheat"
    /\ gc.mutex = "free"
    /\ wh' = [wh EXCEPT !.pc = "heating"]
    /\ gc' = [gc EXCEPT !.mutex = "work"]
    /\ UNCHANGED <<sd, rt, pr, gm, th, ps, disk, hist>>

\* M109 returns.
WorkHeated ==
    /\ wh.pc = "heating"
    /\ \E r \in {work_heated(World)} : Commit(r)
    /\ gc' = [gc EXCEPT !.mutex = "free"]

WorkRestore ==
    /\ wh.pc = "restore"
    /\ gc.mutex = "free"
    /\ \E r \in {work_restore(World)} : Commit(r)
    /\ UNCHANGED gc

WorkRestoreUnhomed ==
    /\ wh.pc = "restore"
    /\ gc.mutex = "free"
    /\ \E r \in {work_restore_unhomed(World)} : Commit(r)
    /\ UNCHANGED gc

WorkExit ==
    /\ wh.pc = "loop"
    /\ sd.must_pause_work
    /\ \E r \in {work_exit(World)} : Commit(r)
    /\ UNCHANGED gc

WorkRead ==
    /\ wh.pc = "loop"
    /\ ~sd.must_pause_work
    /\ wh.lines = <<>>
    /\ \E r \in {work_read(World)} : Commit(r)
    /\ UNCHANGED gc

WorkMutexWait ==
    /\ wh.pc = "loop"
    /\ ~sd.must_pause_work
    /\ wh.lines # <<>>
    /\ gcode_mutex_test
    /\ UNCHANGED vars

WorkDispatch ==
    /\ wh.pc = "loop"
    /\ ~sd.must_pause_work
    /\ wh.lines # <<>>
    /\ ~gcode_mutex_test
    /\ \E r \in {work_dispatch(World)} : Commit(r)
    /\ UNCHANGED gc

\* ------------------------------------------------------ initial states
\* No g-code command was handed to GCodeMove yet.
NoGcode == [op |-> "", params |-> <<>>, err |-> NoErr]

HistInit ==
    [dispatched |-> <<>>, on_error |-> 0, loops |-> 0, cmds |-> <<>>,
     ext_err |-> NoErr, faults |-> 0, write_failed |-> 0,
     ckpt_writes |-> 0, ckpt_at |-> 0, last_ckpt |-> BlankLine,
     flushed |-> 0, paused_at |-> 0, unrestored |-> FALSE,
     nsteps |-> 0, last_gcode |-> NoGcode, example |-> 0,
     ref_e |-> 0, ref_saved |-> <<>>,
     before |-> [gm |-> GCodeMoveInit,
                 th |-> [position |-> <<0, 0, 0, 0>>, speed |-> 0,
                         nmoves |-> 0]]]

\* The state after construction, given what the disk holds.
InitWith(content, block, print_switch, ckpt, meta, laser) ==
    /\ sd = VirtualSDInit(laser)
    /\ rt = [sleeping |-> 0, polling |-> 0]
    /\ wh = FrameIdle
    /\ pr = PauseResumeInit
    /\ gm = GCodeMoveInit
    /\ th = [position |-> <<0, 0, 0, 0>>, speed |-> 0, nmoves |-> 0]
    /\ ps = [state |-> "standby", message |-> None]
    /\ disk = [content |-> content, block |-> block,
               print_switch |-> print_switch, ckpt |-> ckpt, meta |-> meta,
               fault |-> "none"]
    /\ gc = GcodeIdle
    /\ hist = HistInit

\* File contents of at most n characters over the given characters.
RECURSIVE Contents(_, _)
Contents(chars, n) ==
    IF n = 0 THEN {<<>>}
    ELSE LET shorter == Contents(chars, n - 1)
         IN  shorter \cup {Append(c, ch) : c \in shorter, ch \in chars}

\* Every short file, cut into blocks of every small size.
InitBlocks ==
    \E content \in Contents({"G", "x", NL}, MaxLen), block \in 1..MaxBlock :
        InitWith(content, block, FALSE, NoCkpt, NoMeta, FALSE)

NextBlocks ==
    \/ SDCARD_PRINT_FILE
    \/ WorkEntry
    \/ WorkRead
    \/ WorkDispatch

SpecBlocks == InitBlocks /\ [][NextBlocks]_vars

\* The content of a file with the given lines, each one terminated.
RECURSIVE FileOf(_)
FileOf(ls) == IF ls = <<>> THEN <<>> ELSE Head(ls) \o <<NL>> \o FileOf(Tail(ls))

\* n move lines, their X values alternating.
RECURSIVE Moves(_)
Moves(n) ==
    IF n = 0 THEN <<>>
    ELSE Append(Moves(n - 1), IF n % 2 = 0 THEN <<"G">> ELSE <<"G", "x">>)

\* The job files of Spec: moves only; a PAUSE, a CANCEL_PRINT or an M24 among
\* moves; and a job long enough for checkpoints to be written.
JobFiles ==
    {FileOf(<<<<"G", "x">>, <<"G", "x", "x">>, <<"G">>, <<"G", "x">>>>),
     FileOf(<<<<"G", "x">>, <<"P">>, <<"G", "x", "x">>, <<"G">>>>),
     FileOf(<<<<"G", "x">>, <<"C">>, <<"G", "x", "x">>>>),
     FileOf(<<<<"G", "x">>, <<"R">>, <<"G", "x", "x">>>>),
     FileOf(Moves(LongJob))}

\* A checkpoint file holding one record, at the second line of the job.
CkptAt(offset) ==
    [exists |-> TRUE,
     lines |-> <<[kind |-> "record", file_position |-> offset,
                  base_position_e |-> 0], BlankLine>>]

MetaOf(name) ==
    [exists |-> TRUE, file_path |-> name,
     absolute_coord |-> TRUE, absolute_extrude |-> TRUE,
     speed_factor |-> 100, extrude_factor |-> 100]

\* What the disk holds at startup: power-loss recovery switched off or on,
\* no records or the records a power loss left, on a printer that is or is
\* not configured as a laser.
Init ==
    \E content \in JobFiles :
    \E env \in {<<FALSE, FALSE, FALSE>>, <<TRUE, FALSE, FALSE>>,
                <<TRUE, TRUE, FALSE>>, <<TRUE, TRUE, TRUE>>} :
        InitWith(content, BlockSize, env[1],
                 IF env[2] THEN CkptAt(SecondLine(content)) ELSE NoCkpt,
                 IF env[2] THEN MetaOf(JobName) ELSE NoMeta,
                 env[3])

Next ==
    \/ SDCARD_PRINT_FILE
    \/ M23
    \/ M24
    \/ M25
    \/ M26
    \/ SDCARD_RESET_FILE
    \/ PAUSE
    \/ RESUME
    \/ CLEAR_PAUSE
    \/ CANCEL_PRINT
    \/ HoldMutex
    \/ ReleaseMutex
    \/ ExtReturn
    \/ ResetWake
    \/ ResetReturn
    \/ WorkEntry
    \/ WorkPreheat
    \/ WorkHeated
    \/ WorkRestore
    \/ WorkExit
    \/ WorkRead
    \/ WorkMutexWait
    \/ WorkDispatch

Spec == Init /\ [][Next]_vars

\* The reactor runs every callback and greenlet that is ready: the timer
\* callback, a command whose do_pause can return, a held mutex's release, the
\* reset threads.  Nothing obliges the user to issue a command.
Scheduled ==
    \/ ExtReturn
    \/ ReleaseMutex
    \/ ResetWake
    \/ ResetReturn
    \/ WorkEntry
    \/ WorkPreheat
    \/ WorkHeated
    \/ WorkRestore
    \/ WorkExit
    \/ WorkRead
    \/ WorkDispatch

\* Power-loss recovery switched on, the records of an earlier job on disk.
InitRecovery ==
    \E lines \in {<<<<"G", "x">>, <<"G", "x", "x">>, <<"G">>>>,
                  <<<<"G", "x">>, <<"P">>, <<"G">>>>,
                  <<<<"G", "x">>, <<"C">>, <<"G">>>>} :
        InitWith(FileOf(lines), BlockSize, TRUE,
                 CkptAt(SecondLine(FileOf(lines))), MetaOf(JobName), FALSE)

SpecFair == InitRecovery /\ [][Next]_vars /\ WF_vars(Scheduled)

\* The disk starts to fail: reads of the job file raise, or writes of the
\* records do.
DiskFault ==
    /\ disk.fault = "none"
    /\ \E f \in {"read", "write"} : disk' = [disk EXCEPT !.fault = f]
    /\ UNCHANGED <<sd, rt, wh, pr, gm, th, ps, gc, hist>>

\* A job started once on a disk that may start to fail, power-loss recovery
\* off or on.
InitFault ==
    \E content \in {FileOf(Moves(3)), FileOf(Moves(LongJob))},
       print_switch \in BOOLEAN :
        InitWith(content, BlockSize, print_switch, NoCkpt, NoMeta, FALSE)

NextFault ==
    \/ SDCARD_PRINT_FILE
    \/ DiskFault
    \/ WorkEntry
    \/ WorkRead
    \/ WorkDispatch

SpecFault == InitFault /\ [][NextFault]_vars

\* The lines a checkpoint file can hold after interrupted writes; the
\* records are at the second and third line of the job.
CkptLines ==
    {BlankLine, FragmentLine, TruncatedLine,
     [kind |-> "record", file_position |-> 3, base_position_e |-> 0],
     [kind |-> "record", file_position |-> 7, base_position_e |-> 0]}

RECURSIVE CkptFiles(_)
CkptFiles(n) ==
    IF n = 0 THEN {<<>>}
    ELSE LET shorter == CkptFiles(n - 1)
         IN  shorter \cup {Append(f, l) : f \in shorter, l \in CkptLines}

\* A job started with power-loss recovery on, the metadata record present and
\* a checkpoint file of any content.
InitCkpt ==
    \E lines \in CkptFiles(MaxCkptLines) :
        InitWith(FileOf(Moves(4)), BlockSize, TRUE,
                 [exists |-> TRUE, lines |-> lines], MetaOf(JobName), FALSE)

NextCkpt ==
    \/ SDCARD_PRINT_FILE
    \/ WorkEntry
    \/ WorkHeated
    \/ WorkRestore
    \/ WorkRead
    \/ WorkDispatch

SpecCkpt == InitCkpt /\ [][NextCkpt]_vars

\* The same jobs on a printer whose homing may fail.
NextRecover ==
    \/ NextCkpt
    \/ WorkRestoreUnhomed

SpecRecover == InitCkpt /\ [][NextRecover]_vars

\* The name of a job printed earlier, as recordPrintFileName left it.
OtherName == "other.gcode"

\* What an earlier job may have left on disk when a job of four lines is
\* started: no record, both records or either one; metadata naming this file
\* or another one; a checkpointed offset inside this file or past its end.
InitJobStart ==
    \E print_switch \in BOOLEAN,
       ckpt \in {NoCkpt, CkptAt(SecondLine(FileOf(Moves(4)))),
                 CkptAt(Len(FileOf(Moves(4))) + 2)},
       meta \in {NoMeta, MetaOf(JobName), MetaOf(OtherName)} :
        InitWith(FileOf(Moves(4)), BlockSize, print_switch, ckpt, meta, FALSE)

SpecJobStart == InitJobStart /\ [][NextCkpt]_vars

\* ------------------------------------------------- streams of g-code
\* The stream G90; G1 X10; G91; G1 X5.
Example ==
    <<[op |-> "G90", params |-> <<>>], [op |-> "G1", params |-> "X" :> 10],
      [op |-> "G91", params |-> <<>>], [op |-> "G1", params |-> "X" :> 5]>>

\* The parameters of the G1 lines of a stream; F0 is the invalid speed.
G1Inputs ==
    {"X" :> 5, "X" :> 10, "Y" :> 5 @@ "Z" :> 1, "E" :> 2,
     "X" :> 5 @@ "E" :> 4, "E" :> 2 @@ "F" :> 3000, "X" :> 5 @@ "F" :> 0,
     "X" :> 5 @@ "Y" :> 0 @@ "unparseable" :> 2}

G92Inputs ==
    {<<>>, "E" :> 0, "E" :> 3, "X" :> 0 @@ "E" :> 1, "Y" :> 2 @@ "Z" :> 1}

M220Inputs == {50, 200}

M221Inputs == {50, 200}

\* The logical E after a command, as a reader of the stream follows it: an
\* absolute E sets it, a relative E adds to it, G92 E sets it, G92 alone
\* zeroes it, a restore returns to the value at the save.
TrackE(h, g, op, params) ==
    CASE op = "G1" /\ "E" \in DOMAIN params ->
            IF ~g.absolute_coord \/ ~g.absolute_extrude
            THEN h.ref_e + params["E"] ELSE params["E"]
      [] op = "G92" /\ "E" \in DOMAIN params -> params["E"]
      [] op = "G92" /\ DOMAIN params = {} -> 0
      [] op = "RESTORE_GCODE_STATE" /\ params["NAME"] \in DOMAIN h.ref_saved ->
            h.ref_saved[params["NAME"]]
      [] OTHER -> h.ref_e

\* One command of the stream: r is the world its handler leaves.
GcodeStep(op, params, r) ==
    /\ hist.nsteps < MaxMoves
    /\ Commit([command_error(r) EXCEPT
          !.hist.nsteps = @ + 1,
          !.hist.last_gcode = [op |-> op, params |-> params, err |-> r.err],
          !.hist.before = [gm |-> gm, th |-> th],
          !.hist.example =
              IF @ \in 0..(Len(Example) - 1)
                 /\ Example[@ + 1] = [op |-> op, params |-> params]
              THEN @ + 1 ELSE -1,
          !.hist.ref_e = TrackE(hist, gm, op, params),
          !.hist.ref_saved =
              IF op = "SAVE_GCODE_STATE"
              THEN (params["NAME"] :> hist.ref_e) @@ @ ELSE @])
    /\ UNCHANGED gc

G1 == \E params \in G1Inputs : GcodeStep("G1", params, cmd_G1(World, params))

M82 == GcodeStep("M82", <<>>, cmd_M82(World))

M83 == GcodeStep("M83", <<>>, cmd_M83(World))

G90 == GcodeStep("G90", <<>>, cmd_G90(World))

G91 == GcodeStep("G91", <<>>, cmd_G91(World))

G92 == \E offsets \in G92Inputs : GcodeStep("G92", offsets, cmd_G92(World, offsets))

M220 == \E S \in M220Inputs : GcodeStep("M220", "S" :> S, cmd_M220(World, S))

M221 == \E S \in M221Inputs : GcodeStep("M221", "S" :> S, cmd_M221(World, S))

SAVE_GCODE_STATE ==
    GcodeStep("SAVE_GCODE_STATE", "NAME" :> "default",
              cmd_SAVE_GCODE_STATE(World, "default"))

\* MOVE_SPEED is not given: its default is self.speed, read after the
\* snapshot's speed was assigned to it.
RestoredSpeed(name) ==
    IF name \in DOMAIN gm.saved_states THEN gm.saved_states[name].speed
    ELSE gm.speed

RESTORE_GCODE_STATE ==
    \E move \in BOOLEAN :
        GcodeStep("RESTORE_GCODE_STATE",
                  "NAME" :> "default" @@ "MOVE" :> (IF move THEN 1 ELSE 0),
                  cmd_RESTORE_GCODE_STATE(World, "default", move,
                                          RestoredSpeed("default")))

InitMove == InitWith(<<>>, BlockSize, FALSE, NoCkpt, NoMeta, FALSE)

NextMove ==
    \/ G1
    \/ M82
    \/ M83
    \/ G90
    \/ G91
    \/ G92
    \/ M220
    \/ M221
    \/ SAVE_GCODE_STATE
    \/ RESTORE_GCODE_STATE

SpecMove == InitMove /\ [][NextMove]_vars

\* A long job with power-loss recovery on that is started, paused, moved back
\* to the start of the file and resumed, in any order and at any moment.
InitDeep ==
    InitWith(FileOf(Moves(DeepJob)), BlockSize, TRUE, NoCkpt, NoMeta, FALSE)

DeepStart ==
    ExtRunUpTo(MaxDeepCmds, "SDCARD_PRINT_FILE", cmd_SDCARD_PRINT_FILE(World))

DeepPause == ExtRunUpTo(MaxDeepCmds, "PAUSE", cmd_PAUSE(World))

DeepRewind == ExtRunUpTo(MaxDeepCmds, "M26", cmd_M26(World, 0))

DeepResume == ExtRunUpTo(MaxDeepCmds, "RESUME", cmd_RESUME(World))

NextDeep ==
    \/ DeepStart
    \/ DeepPause
    \/ DeepRewind
    \/ DeepResume
    \/ ExtReturn
    \/ WorkEntry
    \/ WorkExit
    \/ WorkRead
    \/ WorkDispatch

SpecDeep == InitDeep /\ [][NextDeep]_vars

\* Jobs that reposition themselves: every file of at most MaxSkipFile lines
\* among moves and repositioning commands, read in blocks of three characters
\* or in one block.  A job that jumps backwards has no end: the lines
\* dispatched in one behaviour are bounded.
SkipLines ==
    {<<"G">>, <<"G", "x">>, <<"G", "x", "x">>, <<"J">>, <<"J", "x", "x">>,
     <<"J", "x", "x", "x">>, <<"S">>, <<"S", "x">>, <<"S", "x", "x", "x">>,
     <<"S", "x", "x", "x", "x", "x", "x", "x">>}

RECURSIVE SkipJobs(_)
SkipJobs(n) ==
    IF n = 0 THEN {<<>>}
    ELSE LET shorter == SkipJobs(n - 1)
         IN  shorter \cup {Append(f, l) : f \in shorter, l \in SkipLines}

InitSkip ==
    \E ls \in SkipJobs(MaxSkipFile), block \in {3, BlockSize} :
        InitWith(FileOf(ls), block, FALSE, NoCkpt, NoMeta, FALSE)

SkipDispatch == Len(hist.dispatched) < MaxSkipLines /\ WorkDispatch

NextSkip ==
    \/ SDCARD_PRINT_FILE
    \/ WorkEntry
    \/ WorkRead
    \/ SkipDispatch

SpecSkip == InitSkip /\ [][NextSkip]_vars

\* A job under the pause orchestrator: started, paused (PAUSE, M600, or a
\* PAUSE line of the file), resumed (RESUME, or M24 that goes to the engine
\* directly), cancelled, in any order and at any moment.
InitPause ==
    \E content \in {FileOf(<<<<"G", "x">>, <<"G", "x", "x">>, <<"G">>>>),
                     FileOf(<<<<"G", "x">>, <<"P">>, <<"G", "x", "x">>>>)} :
        InitWith(content, BlockSize, FALSE, NoCkpt, NoMeta, FALSE)

OrchStart ==
    ExtRunUpTo(MaxPauseCmds, "SDCARD_PRINT_FILE", cmd_SDCARD_PRINT_FILE(World))

OrchPause == ExtRunUpTo(MaxPauseCmds, "PAUSE", cmd_PAUSE(World))

OrchM600 == ExtRunUpTo(MaxPauseCmds, "M600", cmd_M600(World))

OrchResume == ExtRunUpTo(MaxPauseCmds, "RESUME", cmd_RESUME(World))

OrchM24 == ExtRunUpTo(MaxPauseCmds, "M24", cmd_M24(World))

OrchClear == ExtRunUpTo(MaxPauseCmds, "CLEAR_PAUSE", cmd_CLEAR_PAUSE(World))

OrchCancel == ExtRunUpTo(MaxPauseCmds, "CANCEL_PRINT", cmd_CANCEL_PRINT(World))

NextPause ==
    \/ OrchStart
    \/ OrchPause
    \/ OrchM600
    \/ OrchResume
    \/ OrchM24
    \/ OrchClear
    \/ OrchCancel
    \/ ExtReturn
    \/ ResetWake
    \/ ResetReturn
    \/ WorkEntry
    \/ WorkExit
    \/ WorkRead
    \/ WorkDispatch

SpecPause == InitPause /\ [][NextPause]_vars

\* ----------------------------------------------------------- claims
\* The lines of a file: what lies between its line terminators, the text
\* after the last terminator included when there is any.
FileLines(content) ==
    LET ls == Split(content)
    IN  IF Last(ls) = <<>> THEN Front(ls) ELSE ls

\* The lines handed to the interpreter so far, in order.
DispatchedLines == [i \in 1..Len(hist.dispatched) |-> hist.dispatched[i].line]

\* C1: once a job started once has run to its end, the lines dispatched are
\* the lines of the file, whatever the block size: none lost, none twice,
\* none split, the last line of the file included.
C1_DispatchedEqualsFileLines ==
    (Len(hist.cmds) = 1 /\ ps.state = "complete")
        => DispatchedLines = FileLines(disk.content)

\* The offset at which the line after a dispatched line starts.
After(d) == d.pos + Len(d.line) + 1

\* Each dispatched line but the first starts where the one before it ends.
InFileOrder ==
    \A i \in 1..(Len(hist.dispatched) - 1) :
        hist.dispatched[i + 1].pos = After(hist.dispatched[i])

\* A job started and then only paused and resumed, by the orchestrator's pair
\* of commands or by the engine's.
PauseResumeRuns ==
    {<<"SDCARD_PRINT_FILE">>,
     <<"SDCARD_PRINT_FILE", "PAUSE">>,
     <<"SDCARD_PRINT_FILE", "PAUSE", "RESUME">>,
     <<"SDCARD_PRINT_FILE", "M25">>,
     <<"SDCARD_PRINT_FILE", "M25", "M24">>}

G1Dispatched ==
    Cardinality({i \in 1..Len(hist.dispatched) : IsG1(hist.dispatched[i].line)})

ResumesIssued ==
    Cardinality({i \in 1..Len(hist.cmds) : hist.cmds[i] = "RESUME"})

\* Every line of the file is a move.
MovesOnly(content) ==
    \A i \in 1..Len(content) :
        (i = 1 \/ content[i - 1] = NL) => content[i] = "G"

\* C2: in a job of moves that is only paused and resumed (PAUSE/RESUME or
\* M25/M24), every dispatched line follows the one dispatched before it in
\* the file, none skipped and none repeated, and with power-loss recovery off
\* the moves issued are those of the lines plus one per RESUME.
C2_PauseResumeKeepsOrder ==
    (hist.cmds \in PauseResumeRuns /\ MovesOnly(disk.content))
        => /\ InFileOrder
           /\ ~disk.print_switch => th.nmoves = G1Dispatched + ResumesIssued

\* The step is the issue of one of the named external commands.
Issued(names) == hist'.cmds # hist.cmds /\ Last(hist'.cmds) \in names

\* C3: never more than one dispatch loop is registered; SDCARD_PRINT_FILE,
\* M23, M26 and M24 issued while a loop is active fail with the busy error
\* and change neither the engine nor the loop, and a RESUME that reaches
\* do_resume while a loop is active fails with it and registers no loop.
C3_OneLoop ==
    [][/\ hist'.loops <= 1
       /\ (Issued({"SDCARD_PRINT_FILE", "M23", "M26", "M24"}) /\ sd.work_timer)
            => (hist'.ext_err = SdBusy /\ hist'.loops = hist.loops
                /\ sd' = sd /\ wh' = wh)
       /\ (Issued({"RESUME"}) /\ sd.work_timer /\ pr.is_paused /\ pr.sd_paused)
            => (hist'.ext_err = SdBusy /\ hist'.loops = hist.loops
                /\ wh' = wh)]_vars

\* C3's case: M24 has just been refused while the loop is active.
C3_Witness ==
    /\ hist.cmds # <<>>
    /\ Last(hist.cmds) = "M24"
    /\ hist.ext_err = SdBusy
    /\ hist.loops = 1
    /\ wh.pc = "loop"

\* C4: an M24 or a RESUME that fails with the busy error leaves the
\* coordinate state, the motion issued, the engine's fields and the
\* orchestrator's pause flags as they were.
C4_BusyResumeMutatesNothing ==
    [][(Issued({"M24", "RESUME"}) /\ hist'.ext_err = SdBusy)
          => (gm' = gm /\ th' = th /\ sd' = sd /\ pr' = pr)]_vars

\* C5: while an external command holds the g-code mutex and the loop is
\* running, no step dispatches a line, takes a line from the buffer or moves
\* file_position.
C5_NoDispatchWhileMutexHeld ==
    [][(gc.mutex = "ext" /\ wh.pc = "loop")
          => /\ hist'.dispatched = hist.dispatched
             /\ sd'.file_position = sd.file_position
             /\ wh.lines # <<>> => wh'.lines = wh.lines]_vars

\* C5's case: lines have been dispatched, more are buffered, and the loop is
\* deferring to a command that holds the mutex.
C5_Witness ==
    /\ gc.mutex = "ext"
    /\ gc.ext = "hold"
    /\ wh.pc = "loop"
    /\ ~sd.must_pause_work
    /\ wh.lines # <<>>
    /\ hist.dispatched # <<>>

\* The step ends the loop because must_pause_work is set.
PauseExit ==
    /\ wh.pc = "loop"
    /\ wh'.pc = "idle"
    /\ sd'.must_pause_work
    /\ wh'.error_message = None

\* The characters read from the job file and not yet dispatched.
Buffered(frame) == Len(FileOf(frame.lines)) + Len(frame.partial_input)

\* After the step the job file is open, the loop is not active and
\* file_position is the offset of the first line not dispatched.
ExitKeepsJob ==
    /\ sd'.current_file # None
    /\ ~sd'.work_timer
    /\ sd'.file_position =
          IF hist'.dispatched # hist.dispatched
          THEN After(Last(hist'.dispatched)) ELSE sd.file_position
    /\ sd'.file_position + Buffered(wh') = sd'.cursor

IsCancel(line) == line # <<>> /\ line[1] = "C"

\* The step dispatches a CANCEL_PRINT line of the job file.
CancelledFromFile ==
    hist'.dispatched # hist.dispatched /\ IsCancel(Last(hist'.dispatched).line)

\* A line is dispatched only by an active loop, and a loop becomes active
\* only by a start or a resume.
DispatchNeedsResume ==
    /\ hist'.dispatched # hist.dispatched => (wh.pc = "loop" /\ sd.work_timer)
    /\ (~sd.work_timer /\ sd'.work_timer)
          => Issued({"SDCARD_PRINT_FILE", "M24", "RESUME"})

C7_PauseReturns ==
    (gc.ext \in {"PAUSE", "M25"}) ~> (gc.ext = "idle" \/ wh.pc = "crashed")

\* A job has dispatched lines, a cancel has been carried out and the loop has
\* exited: the last external command is a CANCEL_PRINT that has returned, or
\* the job's only command is its start and the last line it dispatched is
\* CANCEL_PRINT.
AfterCancel ==
    /\ wh.pc = "idle"
    /\ hist.dispatched # <<>>
    /\ \/ /\ Last(hist.cmds) = "CANCEL_PRINT"
          /\ gc.ext = "idle"
       \/ /\ Len(hist.cmds) = 1
          /\ IsCancel(Last(hist.dispatched).line)

\* C8: after a cancel, external or from the job file, once the loop has
\* exited the job file is closed and file_position and file_size are zero.
C8_CancelClosesAndZeroes ==
    AfterCancel
        => (sd.current_file = None /\ sd.file_position = 0 /\ sd.file_size = 0)

NoRecords == ~disk.ckpt.exists /\ ~disk.meta.exists

\* A record is created or rewritten only by a step of a registered loop,
\* and a loop is registered only by a start or a resume.
RecordsWrittenByLoopOnly ==
    /\ ((disk'.ckpt # disk.ckpt /\ disk'.ckpt.exists)
           \/ (disk'.meta # disk.meta /\ disk'.meta.exists))
          => sd.work_timer
    /\ (~sd.work_timer /\ sd'.work_timer)
          => Issued({"SDCARD_PRINT_FILE", "M24", "RESUME"})

EndOfFile ==
    /\ wh.pc = "loop"
    /\ wh'.pc = "idle"
    /\ sd.current_file # None
    /\ sd'.current_file = None
    /\ hist'.dispatched = hist.dispatched

FailedLine ==
    /\ hist'.dispatched # hist.dispatched
    /\ Last(hist'.dispatched).line # <<>>
    /\ Last(hist'.dispatched).line[1] = "R"

\* C10: the step that dispatches a failing line dispatches that line only,
\* runs the error sequence once, ends the loop, reports the job failed with
\* the interpreter's message and leaves file_position at the failing line;
\* the error sequence is run in no other step, and no line is dispatched
\* while no loop is active.
C10_ErrorStopsJob ==
    [][/\ FailedLine
            => /\ Len(hist'.dispatched) = Len(hist.dispatched) + 1
               /\ hist'.on_error = hist.on_error + 1
               /\ wh'.pc = "idle"
               /\ ~sd'.work_timer
               /\ ps'.state = "error"
               /\ ps'.message = SdBusy
               /\ sd'.file_position = Last(hist'.dispatched).pos
       /\ hist'.on_error # hist.on_error => FailedLine
       /\ hist'.dispatched # hist.dispatched => wh.pc = "loop"]_vars

\* C10's case: a line has failed and the job is reported failed.
C10_Witness ==
    /\ ps.state = "error"
    /\ ps.message = SdBusy
    /\ hist.on_error = 1
    /\ hist.dispatched # <<>>
    /\ sd.file_position = Last(hist.dispatched).pos

\* C11: a step in which the loop catches an exception that is not an
\* instruction error (a failed read of the job file, an exception raised
\* before the line reaches the interpreter) ends the loop and reports the job
\* in the error state.
C11_FaultEndsInError ==
    [][hist'.faults # hist.faults
          => (wh'.pc = "idle" /\ ~sd'.work_timer /\ ps'.state = "error")]_vars

\* C12: a pass of the loop in which a write of the checkpoint record or of
\* the metadata record fails leaves the job printing with its loop
\* registered, and the line the pass took is dispatched.
C12_WriteFailureSwallowed ==
    [][(wh.pc = "loop" /\ hist'.write_failed # hist.write_failed)
          => /\ wh'.pc = "loop"
             /\ sd'.work_timer
             /\ ps'.state = "printing"
             /\ Len(hist'.dispatched) = Len(hist.dispatched) + 1]_vars

\* The complete records of a checkpoint file.
CompleteRecords(lines) == {i \in 1..Len(lines) : lines[i].kind = "record"}

\* C13: when a job is started on a checkpoint file that holds a complete
\* record, the reader selects the complete record with the highest offset:
\* recovery goes on from that offset, whatever truncated lines the file also
\* holds.
C13_ReaderReturnsHighestComplete ==
    [][(wh.pc = "entry" /\ wh'.pc # "entry" /\ disk.meta.exists
          /\ CompleteRecords(disk.ckpt.lines) # {})
          => /\ wh'.pc = "heating"
             /\ sd'.file_position =
                  Max({disk.ckpt.lines[i].file_position :
                         i \in CompleteRecords(disk.ckpt.lines)})]_vars

\* C14: whenever one job has written checkpoints, the record the recovery
\* reader selects from the checkpoint file is the one written last.
OneJob == Len(SelectSeq(hist.cmds, LAMBDA c : c = "SDCARD_PRINT_FILE")) = 1

C14_ReaderSelectsLastWritten ==
    (OneJob /\ hist.ckpt_writes > 0 /\ disk.ckpt.exists)
        => NewestRecord(disk.ckpt.lines, BlankLine) = hist.last_ckpt

\* C15: a step that writes a checkpoint leaves in the checkpoint file the
\* record that was the last one written before the step.
C15_WriteKeepsLastRecord ==
    [][(hist'.ckpt_writes # hist.ckpt_writes /\ hist.ckpt_writes > 0
          /\ disk.ckpt.exists)
          => \E i \in 1..Len(disk'.ckpt.lines) :
                disk'.ckpt.lines[i] = hist.last_ckpt]_vars

\* Lines dispatched since the last checkpoint write (since the start when
\* none was written).
SinceCheckpoint == Len(hist.dispatched) - hist.ckpt_at

\* C16 as stated: while the loop runs with power-loss recovery on, at most
\* CkptEvery lines are dispatched since the last checkpoint write.
C16_CheckpointEveryN ==
    (wh.pc = "loop" /\ wh.print_switch /\ ~sd.is_laser_print)
        => SinceCheckpoint <= CkptEvery

\* The loop has written a checkpoint since it was last entered.
RunHasWritten ==
    /\ wh.pc = "loop"
    /\ hist.ckpt_writes > 0
    /\ hist.ckpt_at >= Len(hist.dispatched) - sd.count

\* C16, amended: a pass of the loop writes a checkpoint exactly when recovery
\* is on, the printer is no laser, G1Warmup G1 lines were dispatched since the
\* loop was entered and the count of lines dispatched since then is a multiple
\* of CkptEvery; once a run of the loop has written, at most CkptEvery lines
\* are dispatched since the last checkpoint write.
C16_CheckpointEveryNAfterWarmup ==
    /\ [](RunHasWritten => SinceCheckpoint <= CkptEvery)
    /\ [][(wh.pc = "loop" /\ Len(hist'.dispatched) = Len(hist.dispatched) + 1)
            => ((hist'.ckpt_writes # hist.ckpt_writes)
                  <=> (wh.print_switch /\ ~sd.is_laser_print
                         /\ sd.count_G1 >= G1Warmup
                         /\ sd.count % CkptEvery = 0))]_vars

\* C16 witness: a resumed loop is CkptEvery lines past a checkpoint it wrote.
C16_Witness ==
    /\ RunHasWritten
    /\ hist.ckpt_writes >= 2
    /\ hist.cmds = <<"SDCARD_PRINT_FILE", "PAUSE", "RESUME">>
    /\ SinceCheckpoint = CkptEvery

\* C17: the step that starts a job moves file_position only if both records
\* exist, the metadata names the file being started and the new offset lies
\* inside that file.
C17_RecoveryOnlyForThisFile ==
    [][(wh.pc = "entry" /\ wh'.pc # "entry" /\ ~sd.do_resume_status
          /\ sd'.file_position # sd.file_position)
          => /\ disk.ckpt.exists
             /\ disk.meta.exists
             /\ disk.meta.file_path = sd.current_file
             /\ sd'.file_position \in 0..Len(disk.content)]_vars

\* The logical position of the axis at index i, in the units of g-code.
LogicalXYZ(i) == gm.last_position[i] - gm.base_position[i]

\* C18: after every stream of G1 with E, M82/M83, G90/G91, G92, M221, save and
\* restore, (last_position[3] - base_position[3]) / extrude_factor is exactly
\* the logical E a reader of the stream computes.
C18_NoExtrudeDrift ==
    /\ (gm.last_position[4] - gm.base_position[4]) % gm.extrude_factor = 0
    /\ (gm.last_position[4] - gm.base_position[4]) \div gm.extrude_factor
          = hist.ref_e

\* C18 witness: under a factor of 200 percent E was moved to 2, a snapshot
\* was taken, E was moved to 4 and the snapshot was restored: the logical E
\* is 2 again with the extruder left where the last move put it.
C18_Witness ==
    /\ hist.last_gcode.op = "RESTORE_GCODE_STATE"
    /\ hist.last_gcode.err = NoErr
    /\ gm.extrude_factor = 200
    /\ hist.ref_e = 2
    /\ gm.last_position[4] = 800
    /\ gm.base_position[4] = 400

\* A step in which GCodeMove ran a G1 that did not fail.
G1Done ==
    /\ hist'.nsteps = hist.nsteps + 1
    /\ hist'.last_gcode.op = "G1"
    /\ hist'.last_gcode.err = NoErr

\* C19: a G1 adds the value of each of X, Y, Z it carries to last_position
\* in relative mode and sets last_position to value + base_position in
\* absolute mode, leaves the axes it does not carry alone and issues exactly
\* one move, to the resulting last_position; after G90; G1 X10; G91; G1 X5
\* the logical X is 15.
C19_G1MovesAxes ==
    /\ [](hist.example = Len(Example) => LogicalXYZ(1) = 15)
    /\ [][G1Done =>
            LET params == hist'.last_gcode.params
            IN  /\ \A axis \in {"X", "Y", "Z"} :
                      gm'.last_position[AxisPos(axis)] =
                          IF axis \notin DOMAIN params
                          THEN gm.last_position[AxisPos(axis)]
                          ELSE IF gm.absolute_coord
                          THEN params[axis] + gm.base_position[AxisPos(axis)]
                          ELSE gm.last_position[AxisPos(axis)] + params[axis]
                /\ th'.nmoves = th.nmoves + 1
                /\ th'.position = gm'.last_position]_vars

\* C19 witness: the stream G90; G1 X10; G91; G1 X5 was run and the second
\* move went to X = 15.
C19_Witness ==
    /\ hist.example = Len(Example)
    /\ th.position[1] = 15
    /\ th.nmoves = 2

\* A step in which GCodeMove ran a G1 carrying E that did not fail.
G1WithE == G1Done /\ "E" \in DOMAIN hist'.last_gcode.params

\* The E value of the G1 of the step, multiplied by extrude_factor.
ScaledE == hist'.last_gcode.params["E"] * gm.extrude_factor

\* C20 as stated: the scaled E value of a G1 is applied as an absolute value
\* when absolute_extrude is set and as a relative one when it is cleared,
\* whatever absolute_coord is.
C20_ExtrudeModeAlone ==
    [][G1WithE =>
        gm'.last_position[4] =
            IF gm.absolute_extrude THEN ScaledE + gm.base_position[4]
            ELSE gm.last_position[4] + ScaledE]_vars

\* C20, amended: the scaled E value of a G1 is applied as an absolute value
\* only when absolute_coord and absolute_extrude are both set; when either
\* one is cleared it is added to last_position[3].
C20_ExtrudeAbsoluteOnlyInBothModes ==
    [][G1WithE =>
        gm'.last_position[4] =
            IF gm.absolute_coord /\ gm.absolute_extrude
            THEN ScaledE + gm.base_position[4]
            ELSE gm.last_position[4] + ScaledE]_vars

\* C20 witness: after G91, with absolute_extrude still set, a G1 with E has
\* added its scaled value to an E position that was not at the origin.
C20_Witness ==
    /\ hist.last_gcode.op = "G1"
    /\ hist.last_gcode.err = NoErr
    /\ "E" \in DOMAIN hist.last_gcode.params
    /\ ~gm.absolute_coord
    /\ gm.absolute_extrude
    /\ gm.last_position[4]
          # hist.last_gcode.params["E"] * gm.extrude_factor + gm.base_position[4]

\* _get_gcode_position of the coordinate state g, for the axis at index i.
Logical(g, i) ==
    IF i = 4
    THEN (g.last_position[4] - g.base_position[4]) \div g.extrude_factor
    ELSE g.last_position[i] - g.base_position[i]

\* The E component of the logical position is a whole number of units.
ExactE(g) == (g.last_position[4] - g.base_position[4]) % g.extrude_factor = 0

\* A step in which GCodeMove ran the command op and it did not fail.
Ran(op) ==
    /\ hist'.nsteps = hist.nsteps + 1
    /\ hist'.last_gcode.op = op
    /\ hist'.last_gcode.err = NoErr

\* C21: after a G92 that gives values, the logical position of every axis
\* given is the value given, that of every other axis is what it was,
\* last_position is what it was and the toolhead was handed no move.
C21_G92SetsLogicalPosition ==
    [][(Ran("G92") /\ DOMAIN hist'.last_gcode.params # {}) =>
        LET offsets == hist'.last_gcode.params
        IN  /\ \A axis \in {"X", "Y", "Z", "E"} :
                  IF axis \in DOMAIN offsets
                  THEN Logical(gm', LetterOrder(axis)) = offsets[axis]
                  ELSE Logical(gm', LetterOrder(axis))
                          = Logical(gm, LetterOrder(axis))
            /\ ExactE(gm')
            /\ gm'.last_position = gm.last_position
            /\ th' = th]_vars

\* C21 witness: under a factor of 50 percent, with the extruder away from
\* the origin, G92 E3 has moved base_position[3].
C21_Witness ==
    /\ hist.last_gcode = [op |-> "G92", params |-> "E" :> 3, err |-> NoErr]
    /\ gm.extrude_factor = 50
    /\ gm.last_position[4] # 0
    /\ gm.base_position[4] # hist.before.gm.base_position[4]
    /\ Logical(gm, 4) = 3

\* C22: after a G92 without any axis, base_position equals last_position
\* and the logical position is zero on the four axes.
C22_BareG92Rezeroes ==
    [][(Ran("G92") /\ DOMAIN hist'.last_gcode.params = {}) =>
        /\ gm'.base_position = gm'.last_position
        /\ \A i \in 1..4 : Logical(gm', i) = 0
        /\ gm'.last_position = gm.last_position]_vars

\* C22 witness: a G92 without any axis has moved base_position, which was
\* away from last_position on X and on E.
C22_Witness ==
    /\ hist.last_gcode = [op |-> "G92", params |-> <<>>, err |-> NoErr]
    /\ hist.before.gm.base_position[1] # hist.before.gm.last_position[1]
    /\ hist.before.gm.base_position[4] # hist.before.gm.last_position[4]
    /\ gm.base_position = gm.last_position
    /\ gm.base_position # hist.before.gm.base_position

\* The offsets that give every axis its current logical position.
CurrentLogical ==
    "X" :> Logical(gm, 1) @@ "Y" :> Logical(gm, 2) @@ "Z" :> Logical(gm, 3)
        @@ "E" :> Logical(gm, 4)

\* The offsets that give every axis the value 0.
ZeroOffsets == "X" :> 0 @@ "Y" :> 0 @@ "Z" :> 0 @@ "E" :> 0

\* C23 as stated: from every reachable state, G92 without any axis gives the
\* state that G92 with every axis at its current logical position gives.
C23_BareG92IsG92OfCurrent ==
    cmd_G92(World, <<>>).gm = cmd_G92(World, CurrentLogical).gm

\* C23, amended: from every reachable state, G92 without any axis gives the
\* state that G92 with every axis at 0 gives, and G92 with every axis at its
\* current logical position changes nothing.
C23_BareG92IsG92OfZero ==
    /\ cmd_G92(World, <<>>).gm = cmd_G92(World, ZeroOffsets).gm
    /\ cmd_G92(World, CurrentLogical).gm = gm

\* C23 witness: a G92 without any axis was run where the logical position
\* was not zero on Y, on Z and on E, and it is zero now.
C23_Witness ==
    /\ hist.last_gcode = [op |-> "G92", params |-> <<>>, err |-> NoErr]
    /\ \A i \in 2..4 : Logical(hist.before.gm, i) # 0
    /\ \A i \in 1..4 : Logical(gm, i) = 0

\* C24: M220 S<p> sets the speed factor to p percent and multiplies speed by
\* new factor / old factor, so that speed / speed_factor is what it was (S50
\* from 100 percent halves speed); base_position, last_position and the
\* logical position are what they were and the toolhead was handed no move.
C24_M220RescalesSpeed ==
    [][Ran("M220") =>
        /\ gm'.speed_factor = hist'.last_gcode.params["S"]
        /\ gm'.speed * gm.speed_factor = gm.speed * gm'.speed_factor
        /\ gm'.speed % gm'.speed_factor = 0
        /\ gm'.speed \div gm'.speed_factor = gm.speed \div gm.speed_factor
        /\ (gm.speed_factor = 100 /\ gm'.speed_factor = 50)
              => 2 * gm'.speed = gm.speed
        /\ gm'.base_position = gm.base_position
        /\ gm'.last_position = gm.last_position
        /\ \A i \in 1..4 : Logical(gm', i) = Logical(gm, i)
        /\ th' = th]_vars

\* C24 witness: after a G1 with F3000 at 100 percent, M220 S50 has halved
\* speed.
C24_Witness ==
    /\ hist.last_gcode = [op |-> "M220", params |-> "S" :> 50, err |-> NoErr]
    /\ hist.before.gm.speed_factor = 100
    /\ hist.before.gm.speed = 3000 * 100
    /\ gm.speed = 3000 * 50

\* C25: M221 sets the extrude factor and leaves alone the logical E (and
\* the logical X, Y, Z), last_position and the toolhead.
C25_M221KeepsLogicalE ==
    [][Ran("M221") =>
        /\ gm'.extrude_factor = hist'.last_gcode.params["S"]
        /\ ExactE(gm) /\ ExactE(gm')
        /\ \A i \in 1..4 : Logical(gm', i) = Logical(gm, i)
        /\ gm'.last_position = gm.last_position
        /\ th' = th]_vars

\* C25 witness: M221 S200 was run at 50 percent with the logical E at 2,
\* and base_position[3] has moved.
C25_Witness ==
    /\ hist.last_gcode = [op |-> "M221", params |-> "S" :> 200, err |-> NoErr]
    /\ hist.before.gm.extrude_factor = 50
    /\ Logical(hist.before.gm, 4) = 2
    /\ Logical(gm, 4) = 2
    /\ gm.base_position[4] # hist.before.gm.base_position[4]

\* C26: a RESTORE_GCODE_STATE that directly follows the SAVE_GCODE_STATE of
\* the same name, with or without MOVE, leaves the mode flags,
\* base_position, last_position, homing_position, speed, speed_factor and
\* extrude_factor as they were before the save.
C26_SaveThenRestoreIsNoOp ==
    [][(/\ hist.last_gcode.op = "SAVE_GCODE_STATE"
        /\ Ran("RESTORE_GCODE_STATE")
        /\ hist'.last_gcode.params["NAME"] = hist.last_gcode.params["NAME"])
        => /\ SnapshotOf(gm) = SnapshotOf(hist.before.gm)
           /\ SnapshotOf(gm') = SnapshotOf(gm)]_vars

\* C26 witness: a restore with MOVE was run on the snapshot of the very state
\* it was run in, with the extruder, the origin of E and the extrude factor
\* away from their initial values, and has changed no field.
C26_Witness ==
    /\ hist.last_gcode.op = "RESTORE_GCODE_STATE"
    /\ hist.last_gcode.err = NoErr
    /\ hist.last_gcode.params["MOVE"] = 1
    /\ hist.before.gm = [gm EXCEPT !.saved_states = hist.before.gm.saved_states]
    /\ gm.saved_states["default"] = SnapshotOf(gm)
    /\ gm.last_position[4] # 0
    /\ gm.base_position[4] # 0
    /\ gm.extrude_factor # 100

\* The snapshot a restore of the step reads.
SnapshotRead == gm.saved_states[hist'.last_gcode.params["NAME"]]

\* C27: a restore leaves last_position[3] alone and sets base_position[3] to
\* the snapshot's, shifted by last_position[3] - snapshot.last_position[3]:
\* the logical E after the restore is the logical E at the save.
C27_RestoreKeepsExtrusion ==
    [][Ran("RESTORE_GCODE_STATE") =>
        /\ gm'.last_position[4] = gm.last_position[4]
        /\ gm'.base_position[4] =
              SnapshotRead.base_position[4]
                  + (gm.last_position[4] - SnapshotRead.last_position[4])
        /\ ExactE(gm')
        /\ Logical(gm', 4) = Logical(SnapshotRead, 4)
        /\ Logical(gm', 4) = hist.ref_saved[hist'.last_gcode.params["NAME"]]]_vars

\* C27 witness: a restore was run after the extruder had moved and the
\* extrude factor had changed since the save, at a logical E other than 0.
C27_Witness ==
    /\ hist.last_gcode.op = "RESTORE_GCODE_STATE"
    /\ hist.last_gcode.err = NoErr
    /\ gm.last_position[4] # gm.saved_states["default"].last_position[4]
    /\ hist.before.gm.extrude_factor # gm.extrude_factor
    /\ gm.base_position[4] # gm.saved_states["default"].base_position[4]
    /\ Logical(gm, 4) # 0
    /\ Logical(gm, 4) # Logical(hist.before.gm, 4)

\* C28: a restore with MOVE=1 hands the toolhead exactly one move, to the
\* snapshot's X, Y, Z and the current E, and the logical X, Y, Z are those
\* of the snapshot; a restore with MOVE=0 hands it none and leaves
\* last_position alone.
C28_RestoreMove ==
    [][Ran("RESTORE_GCODE_STATE") =>
        IF hist'.last_gcode.params["MOVE"] = 1
        THEN /\ th'.nmoves = th.nmoves + 1
             /\ th'.position = <<SnapshotRead.last_position[1],
                                 SnapshotRead.last_position[2],
                                 SnapshotRead.last_position[3],
                                 gm.last_position[4]>>
             /\ gm'.last_position = th'.position
             /\ \A i \in 1..3 : Logical(gm', i) = Logical(SnapshotRead, i)
        ELSE /\ th' = th
             /\ gm'.last_position = gm.last_position]_vars

\* C28 witness: a restore with MOVE=1 has moved the toolhead back on X while
\* the extruder stayed where a later move had put it.
C28_Witness ==
    /\ hist.last_gcode.op = "RESTORE_GCODE_STATE"
    /\ hist.last_gcode.err = NoErr
    /\ hist.last_gcode.params["MOVE"] = 1
    /\ th.nmoves = hist.before.th.nmoves + 1
    /\ th.position[1] # hist.before.th.position[1]
    /\ th.position[4] = hist.before.th.position[4]
    /\ th.position[4] # gm.saved_states["default"].last_position[4]

\* C29: a restore of a name that was never saved fails with the
\* unknown-state error and changes no coordinate field, no snapshot and
\* nothing of the toolhead.
C29_UnknownRestoreMutatesNothing ==
    [][(/\ hist'.nsteps = hist.nsteps + 1
        /\ hist'.last_gcode.op = "RESTORE_GCODE_STATE"
        /\ hist'.last_gcode.params["NAME"] \notin DOMAIN gm.saved_states)
        => /\ hist'.last_gcode.err = UnknownState
           /\ gm' = gm
           /\ th' = th]_vars

\* C29 witness: a restore with MOVE failed for want of a snapshot, in
\* relative mode and after a move.
C29_Witness ==
    /\ hist.last_gcode.op = "RESTORE_GCODE_STATE"
    /\ hist.last_gcode.err = UnknownState
    /\ hist.last_gcode.params["MOVE"] = 1
    /\ gm.saved_states = <<>>
    /\ ~gm.absolute_coord
    /\ th.nmoves > 0
    /\ gm = hist.before.gm
    /\ th = hist.before.th

\* A step in which GCodeMove ran a G1 that failed.
G1Failed ==
    /\ hist'.nsteps = hist.nsteps + 1
    /\ hist'.last_gcode.op = "G1"
    /\ hist'.last_gcode.err # NoErr

NothingDone ==
    /\ sd' = sd /\ wh' = wh /\ pr' = pr /\ gm' = gm /\ th' = th
    /\ ps' = ps /\ disk' = disk /\ rt' = rt /\ gc' = gc
    /\ hist'.ext_err = NoErr

\* C31: a PAUSE or an M600 issued while the orchestrator is paused, and a
\* RESUME issued while it is not, change no pause flag, no snapshot, no field
\* of the engine, issue no move, and neither suspend the caller in do_pause
\* nor register the dispatch loop; none of them raises.
C31_InapplicableRequestIsNoOp ==
    [][/\ (Issued({"PAUSE", "M600"}) /\ pr.is_paused) => NothingDone
       /\ (Issued({"RESUME"}) /\ ~pr.is_paused) => NothingDone]_vars

\* C31's case: a job paused by M600 while its loop was running, then PAUSE.
C31_Witness ==
    /\ hist.cmds = <<"SDCARD_PRINT_FILE", "M600", "PAUSE">>
    /\ pr.is_paused
    /\ pr.sd_paused
    /\ "M600_state" \in DOMAIN gm.saved_states
    /\ gm.saved_states["PAUSE_STATE"] # SnapshotOf(gm)

\* The step is a RESUME of the one job started, which the orchestrator paused
\* while its loop was active.
ResumeOfPausedJob ==
    Issued({"RESUME"}) /\ pr.is_paused /\ pr.sd_paused /\ OneJob

\* C32: a RESUME of a paused job issues the recovery move to the X, Y, Z of
\* the pause snapshot, no line of the file was dispatched between the pause
\* and that move, and is_paused is cleared only once the dispatch loop is
\* registered again.
C32_RestoreBeforeDispatch ==
    [][ResumeOfPausedJob =>
          /\ th'.nmoves = th.nmoves + 1
          /\ \A i \in 1..3 :
                th'.position[i] = gm.saved_states["PAUSE_STATE"].last_position[i]
          /\ Len(hist.dispatched) = hist.paused_at
          /\ ~pr'.is_paused => (sd'.work_timer /\ wh'.pc = "entry")]_vars

\* The step in which an external CANCEL_PRINT runs to its end, at once or when
\* the do_pause it waited in has returned.
CancelPrintDone ==
    \/ Issued({"CANCEL_PRINT"}) /\ gc'.ext = "idle"
    \/ gc.ext = "CANCEL_PRINT" /\ gc'.ext = "idle"

\* C33: when CANCEL_PRINT has run, is_paused, sd_paused and
\* pause_command_sent are all false; and CANCEL_PRINT calls the engine's
\* do_cancel exactly when the loop is registered or sd_paused is set (when it
\* does not, the engine keeps its file, its position and do_cancel_status).
C33_CancelClearsPauseFlags ==
    [][/\ CancelPrintDone =>
            (~pr'.is_paused /\ ~pr'.sd_paused /\ ~pr'.pause_command_sent)
       /\ (Issued({"CANCEL_PRINT"}) /\ (sd.work_timer \/ pr.sd_paused))
            => sd'.do_cancel_status
       /\ (Issued({"CANCEL_PRINT"}) /\ ~(sd.work_timer \/ pr.sd_paused))
            => /\ sd'.do_cancel_status = sd.do_cancel_status
               /\ sd'.current_file = sd.current_file
               /\ sd'.file_position = sd.file_position]_vars

\* The step in which M600 saves its snapshots: at once, or when the do_pause
\* it waited in has returned.
M600Saves ==
    \/ Issued({"M600"}) /\ ~pr.is_paused /\ gc'.ext = "idle"
    \/ gc.ext = "M600" /\ gc'.ext = "idle"

\* The step in which PAUSE saves its snapshot, PAUSE being an external command
\* or a line of the file.
PauseSaves ==
    \/ Issued({"PAUSE"}) /\ ~pr.is_paused /\ gc'.ext = "idle"
    \/ gc.ext = "PAUSE" /\ gc'.ext = "idle"
    \/ /\ Len(hist'.dispatched) = Len(hist.dispatched) + 1
       /\ Last(hist'.dispatched).line = <<"P">>
       /\ ~pr.is_paused

\* C34: no step removes a stored snapshot; the snapshot M600_state changes
\* only when M600 saves and PAUSE_STATE only when PAUSE or M600 saves; M600
\* stores the coordinate state under both names and PAUSE under PAUSE_STATE,
\* so PAUSE and RESUME leave M600_state as M600 stored it.
C34_SnapshotsIndependent ==
    [][/\ DOMAIN gm.saved_states \subseteq DOMAIN gm'.saved_states
       /\ \A n \in DOMAIN gm.saved_states :
             gm'.saved_states[n] # gm.saved_states[n]
                => \/ M600Saves
                   \/ n = "PAUSE_STATE" /\ PauseSaves
       /\ M600Saves =>
             /\ {"M600_state", "PAUSE_STATE"} \subseteq DOMAIN gm'.saved_states
             /\ gm'.saved_states["M600_state"] = SnapshotOf(gm)
             /\ gm'.saved_states["PAUSE_STATE"] = SnapshotOf(gm)
       /\ PauseSaves =>
             /\ "PAUSE_STATE" \in DOMAIN gm'.saved_states
             /\ gm'.saved_states["PAUSE_STATE"] = SnapshotOf(gm)]_vars

\* C34's case: M600, RESUME, and a PAUSE that has rewritten PAUSE_STATE while
\* M600_state is still stored.
C34_Witness ==
    /\ hist.cmds = <<"SDCARD_PRINT_FILE", "M600", "RESUME", "PAUSE">>
    /\ pr.is_paused
    /\ {"M600_state", "PAUSE_STATE"} \subseteq DOMAIN gm.saved_states
    /\ gm.saved_states["PAUSE_STATE"] # gm.saved_states["M600_state"]
    /\ gm.saved_states["PAUSE_STATE"] = SnapshotOf(gm)

\* The line of the file that begins at an offset: the characters from there
\* to the next line terminator (to the end of the file when there is none).
LineAt(content, pos) ==
    LET rest == SubSeq(content, pos + 1, Len(content))
    IN  IF \E i \in 1..Len(rest) : rest[i] = NL
        THEN SubSeq(rest, 1, SecondLine(rest) - 1)
        ELSE rest

\* The step dispatches a line of the file.
Dispatching == Len(hist'.dispatched) = Len(hist.dispatched) + 1

\* C35: every line dispatched is the line of the file that begins at
\* file_position.  When its dispatch leaves next_file_position at the
\* precomputed file_position + len(line) + 1, file_position advances by
\* exactly that much; when it asks for another offset, file_position and the
\* read offset of the file become that offset and the buffered lines and the
\* partial fragment are dropped, so the next line dispatched is the one that
\* begins at the offset asked for.
C35_RepositionReseeks ==
    [][Dispatching =>
         LET d == Last(hist'.dispatched)
             precomputed == d.pos + Len(d.line) + 1
             asked == sd'.next_file_position
         IN  /\ d.pos = sd.file_position
             /\ d.line = LineAt(disk.content, d.pos)
             /\ asked = precomputed => sd'.file_position = precomputed
             /\ asked # precomputed =>
                   /\ sd'.file_position = asked
                   /\ sd'.cursor = asked
                   /\ wh'.lines = <<>>
                   /\ wh'.partial_input = <<>>]_vars

\* C35's case: the file is read in blocks of three characters, a line has
\* asked for an offset further on and the line dispatched after it is the
\* move that begins there.
C35_Witness ==
    /\ Len(hist.dispatched) >= 3
    /\ LET n == Len(hist.dispatched)
           j == hist.dispatched[n - 1]
           d == hist.dispatched[n]
       IN  /\ j.line # <<>>
           /\ j.line[1] = "S"
           /\ d.pos > j.pos + Len(j.line) + 1
           /\ IsG1(d.line)
           /\ d.line = LineAt(disk.content, d.pos)
           /\ disk.block = 3

\* The step in which a PAUSE or an M600 sets is_paused.
PauseTakesEffect == ~pr.is_paused /\ pr'.is_paused

\* C36: while a PAUSE or an M600 waits in do_pause the engine has been asked
\* to stop (must_pause_work) and neither pause_command_sent nor is_paused is
\* set; in the step that sets is_paused the loop, if it was active, has been
\* asked to stop, every move issued before the pause has been flushed, and
\* the snapshot PAUSE_STATE is the coordinate state of that moment; so
\* whenever is_paused holds, PAUSE_STATE is stored.
C36_PauseOrder ==
    /\ [](pr.is_paused => "PAUSE_STATE" \in DOMAIN gm.saved_states)
    /\ [](gc.ext \in {"PAUSE", "M600"} =>
            /\ sd.must_pause_work
            /\ pr.sd_paused
            /\ ~pr.pause_command_sent
            /\ ~pr.is_paused)
    /\ [][PauseTakesEffect =>
            /\ pr'.pause_command_sent
            /\ pr'.sd_paused => sd'.must_pause_work
            /\ hist'.flushed = th.nmoves
            /\ "PAUSE_STATE" \in DOMAIN gm'.saved_states
            /\ gm'.saved_states["PAUSE_STATE"] = SnapshotOf(gm)]_vars

\* C36's case: a PAUSE issued while the loop was dispatching has waited for
\* the loop to exit and has then saved the snapshot and set is_paused.
C36_Witness ==
    /\ hist.cmds = <<"SDCARD_PRINT_FILE", "PAUSE">>
    /\ gc.ext = "idle"
    /\ pr.is_paused
    /\ pr.sd_paused
    /\ sd.must_pause_work
    /\ ~sd.work_timer
    /\ Len(hist.dispatched) = 2
    /\ hist.flushed = 2
    /\ gm.saved_states["PAUSE_STATE"] = SnapshotOf(gm)

\* ------------------------------------ the backward scan (virtual_sdcard.py)
\* The text of a job file is a sequence of characters; the words of a line
\* are separated by one space and a number is written in decimal digits.
G1Word == <<"G", "1">>
G0Word == <<"G", "0">>
Semicolon == <<";">>
Digits == <<"0", "1", "2", "3", "4", "5", "6", "7", "8", "9">>
Whitespace == {" ", NL}

\* The words joined by single spaces.
RECURSIVE JoinSp(_)
JoinSp(words) ==
    IF words = <<>> THEN <<>>
    ELSE IF Len(words) = 1 THEN words[1]
    ELSE words[1] \o <<" ">> \o JoinSp(Tail(words))

\* str.split(sep): the pieces between the separators, empty ones included.
RECURSIVE SplitAt(_, _)
SplitAt(s, sep) ==
    IF \A i \in 1..Len(s) : s[i] # sep THEN <<s>>
    ELSE Only({Only({<<SubSeq(s, 1, i - 1)>> \o SplitAt(rest, sep) :
                       rest \in {SubSeq(s, i + 1, Len(s))}}) :
                 i \in {k \in 1..Len(s) :
                          s[k] = sep /\ \A j \in 1..(k - 1) : s[j] # sep}})

\* str.startswith and str.endswith("\n")
StartsWith(s, prefix) ==
    Len(s) >= Len(prefix) /\ SubSeq(s, 1, Len(prefix)) = prefix

EndsWithNL(s) == s # <<>> /\ Last(s) = NL

\* str.strip() as float() applies it: whitespace removed at both ends.
RECURSIVE Strip(_)
Strip(s) ==
    IF s = <<>> THEN s
    ELSE IF Head(s) \in Whitespace THEN Strip(Tail(s))
    ELSE IF Last(s) \in Whitespace THEN Strip(SubSeq(s, 1, Len(s) - 1))
    ELSE s

DigitValue(c) == (CHOOSE i \in 1..10 : Digits[i] = c) - 1

RECURSIVE Decimal(_)
Decimal(s) ==
    IF s = <<>> THEN 0
    ELSE 10 * Decimal(SubSeq(s, 1, Len(s) - 1)) + DigitValue(Last(s))

\* float(s) for the texts of the model: the value of a run of digits; the
\* empty text and a text with any other character raise ValueError.
float(s) ==
    LET t == Strip(s)
    IN  IF t # <<>> /\ \A i \in 1..Len(t) : \E d \in 1..10 : Digits[d] = t[i]
        THEN [ok |-> TRUE, val |-> Decimal(t)]
        ELSE [ok |-> FALSE, val |-> 0]

\* tail_read from the character at cur_pos backwards, buf read so far: the
\* text returned and the offset the file is left at. b is the character
\* read and buf2 the text after the test for a line end.
RECURSIVE tail_read_from(_, _, _)
tail_read_from(text, cur_pos, buf) ==
    Only({IF cur_pos - 1 < 0
          THEN [buf |-> b \o buf, tell |-> Min(cur_pos + 1, Len(text))]
          ELSE Only({IF /\ \/ StartsWith(buf2, G1Word)
                           \/ StartsWith(buf2, G0Word)
                           \/ StartsWith(buf2, Semicolon)
                        /\ EndsWithNL(buf2)
                     THEN [buf |-> buf2, tell |-> cur_pos - 1]
                     ELSE tail_read_from(text, cur_pos - 1, buf2) :
                     buf2 \in {IF b = <<NL>> THEN <<NL>> ELSE b \o buf}}) :
          b \in {IF cur_pos < Len(text) THEN <<text[cur_pos + 1]>>
                                        ELSE <<>>}})

tail_read(text, tell) == tail_read_from(text, tell, <<>>)

\* for obj in line_list: a word that starts with one of the letters gives
\* the axis of that letter the value of the rest of the word; the E loop cuts
\* the rest at the line end first. r holds the result and whether float raised.
BeforeNL(s) == SplitAt(s, NL)[1]

RECURSIVE scan_words(_, _, _, _)
scan_words(line_list, letters, cut, r) ==
    IF line_list = <<>> \/ r.raised THEN r
    ELSE LET obj == Head(line_list)
             f == float(IF cut THEN BeforeNL(Tail(obj)) ELSE Tail(obj))
         IN  Only({scan_words(Tail(line_list), letters, cut, r1) :
                     r1 \in {IF obj # <<>> /\ obj[1] \in letters
                             THEN IF f.ok
                                  THEN [r EXCEPT !.result[obj[1]] = f.val]
                                  ELSE [r EXCEPT !.raised = TRUE]
                             ELSE r}})

Contains(line, c) == \E i \in 1..Len(line) : line[i] = c

\* The three parts of a pass that read the words of the line: E when E is
\* still 0 and the line holds an E, X and Y when both are still 0, Z when Z
\* is still 0 and the line holds a Z.
scan_E(line, r) ==
    IF r.result["E"] = 0 /\ Contains(line, "E")
    THEN scan_words(SplitAt(line, " "), {"E"}, TRUE, r) ELSE r

scan_XY(line, r) ==
    IF ~r.raised /\ r.result["X"] = 0 /\ r.result["Y"] = 0
    THEN scan_words(SplitAt(line, " "), {"X", "Y"}, FALSE, r) ELSE r

scan_Z(line, r) ==
    IF ~r.raised /\ r.result["Z"] = 0 /\ Contains(line, "Z")
    THEN scan_words(SplitAt(line, " "), {"Z"}, FALSE, r) ELSE r

\* The result after the three parts have read the line.
scan_line(line, result) ==
    Only({Only({scan_Z(line, rXY) : rXY \in {scan_XY(line, rE)}}) :
            rE \in {scan_E(line, [result |-> result, raised |-> FALSE])}})

\* One pass of the loop of getXYZE over the open file: s holds the offset of
\* the file (tell), the result so far and where the function is; t is what
\* tail_read returns and r the result after the line was read.
getXYZE_pass(text, s) ==
    IF s.tell <= 0 THEN [s EXCEPT !.pc = "returned"]
    ELSE
    Only({Only({IF r.raised
                THEN \* except Exception: the result so far is returned
                     [s EXCEPT !.pc = "returned", !.tell = t.tell,
                               !.result = r.result, !.raised = TRUE]
                ELSE IF /\ r.result["X"] # 0 /\ r.result["Y"] # 0
                        /\ r.result["Z"] # 0 /\ r.result["E"] # 0
                THEN [s EXCEPT !.pc = "returned", !.tell = t.tell,
                               !.result = r.result]
                ELSE \* reactor.pause, then the next pass
                     [s EXCEPT !.tell = t.tell, !.result = r.result] :
                r \in {scan_line(t.buf, s.result)}}) :
          t \in {tail_read(text, s.tell)}})

\* A motion line with the given axis words.
MoveLine(words) == JoinSp(<<G1Word>> \o words)

\* The lines of the scanned files: moves that set all four axes (one of them
\* with E at 0), moves that set one axis, a move followed by a comment, an
\* instruction that is no move and a comment line.
ScanLines ==
    {MoveLine(<<<<"X", "5">>, <<"Y", "3">>, <<"Z", "2">>, <<"E", "4">>>>),
     MoveLine(<<<<"X", "6">>, <<"Y", "7">>, <<"Z", "8">>, <<"E", "0">>>>),
     MoveLine(<<<<"X", "9">>>>),
     MoveLine(<<<<"Y", "1">>>>),
     MoveLine(<<<<"X", "7">>, <<";", "c">>>>),
     <<"M", "8", "4">>,
     <<";", "c">>}

RECURSIVE ScanFiles(_)
ScanFiles(n) ==
    IF n = 0 THEN {<<>>}
    ELSE LET shorter == ScanFiles(n - 1)
         IN  shorter \cup {Append(ls, l) : ls \in shorter, l \in ScanLines}

\* The offset is the start of a line: a checkpoint holds the offset that
\* follows a dispatched line (next_file_position).
AtLineStart(text, offset) == offset = 0 \/ text[offset] = NL

\* work_handler is about to call getXYZE on a job file with an offset read
\* from the checkpoint; everything else is as constructed.
InitScan ==
    \E ls \in ScanFiles(MaxScanLines) :
    \E offset \in {o \in 0..Len(FileOf(ls)) : AtLineStart(FileOf(ls), o)} :
        /\ sd = [VirtualSDInit(FALSE) EXCEPT !.file_position = offset]
        /\ rt = [sleeping |-> 0, polling |-> 0]
        /\ wh = [pc |-> "getXYZE", tell |-> 0,
                 result |-> [X |-> 0, Y |-> 0, Z |-> 0, E |-> 0],
                 raised |-> FALSE]
        /\ pr = PauseResumeInit
        /\ gm = GCodeMoveInit
        /\ th = [position |-> <<0, 0, 0, 0>>, speed |-> 0, nmoves |-> 0]
        /\ ps = [state |-> "standby", message |-> None]
        /\ disk = [content |-> FileOf(ls), block |-> BlockSize,
                   print_switch |-> TRUE, ckpt |-> CkptAt(offset),
                   meta |-> MetaOf(JobName), fault |-> "none"]
        /\ gc = GcodeIdle
        /\ hist = HistInit

\* getXYZE up to its loop: the file is opened and sought to file_position.
GetXYZEOpen ==
    /\ wh.pc = "getXYZE"
    /\ wh' = [wh EXCEPT !.pc = "scan", !.tell = sd.file_position]
    /\ UNCHANGED <<sd, rt, pr, gm, th, ps, disk, gc, hist>>

\* One pass of the loop, up to its reactor.pause or to the return.
GetXYZEPass ==
    /\ wh.pc = "scan"
    /\ \E s \in {getXYZE_pass(disk.content, wh)} : wh' = s
    /\ UNCHANGED <<sd, rt, pr, gm, th, ps, disk, gc, hist>>

NextScan ==
    \/ GetXYZEOpen
    \/ GetXYZEPass

SpecScan == InitScan /\ [][NextScan]_vars

\* The reactor runs the greenlet of work_handler again after each pause.
SpecScanFair == SpecScan /\ WF_vars(NextScan)

\* The lines that end before the offset.
LinesBefore(text, offset) == SplitAt(SubSeq(text, 1, offset), NL)

\* The words of a motion line, its comment left out; none for other lines.
AxisWords(line) ==
    IF StartsWith(line, G1Word) \/ StartsWith(line, G0Word)
    THEN SplitAt(SplitAt(line, ";")[1], " ")
    ELSE <<>>

SetsAxis(line, axis) ==
    \E i \in 1..Len(AxisWords(line)) :
        LET obj == AxisWords(line)[i]
        IN  obj # <<>> /\ obj[1] = axis /\ float(Tail(obj)).ok

ValueOfAxis(line, axis) ==
    LET ws == AxisWords(line)
        i == Max({k \in 1..Len(ws) : ws[k] # <<>> /\ ws[k][1] = axis
                                       /\ float(Tail(ws[k])).ok})
    IN  float(Tail(ws[i])).val

IsSetBefore(text, offset, axis) ==
    \E i \in 1..Len(LinesBefore(text, offset)) :
        SetsAxis(LinesBefore(text, offset)[i], axis)

NearestValue(text, offset, axis) ==
    LET ls == LinesBefore(text, offset)
        i == Max({k \in 1..Len(ls) : SetsAxis(ls[k], axis)})
    IN  ValueOfAxis(ls[i], axis)

\* C37: when getXYZE returns, each of X, Y, Z and E that some line before
\* the offset sets has in the result the value of the nearest such line.
C37_ScanGivesNearestValues ==
    wh.pc = "returned" =>
        \A axis \in {"X", "Y", "Z", "E"} :
            IsSetBefore(disk.content, sd.file_position, axis) =>
                wh.result[axis] =
                    NearestValue(disk.content, sd.file_position, axis)

\* C38: getXYZE returns.
C38_ScanTerminates == <>(wh.pc = "returned")

\* A step of a _last_reset_file thread: it wakes from its sleep or returns
\* from the wait of do_pause.
ResetThreadStep ==
    rt'.sleeping < rt.sleeping \/ rt'.polling < rt.polling

\* No job so far was ended by a CANCEL_PRINT of its file: a thread that
\* sleeps was started by a job that ran to the end of its file.
NoCancelFromFile ==
    \A i \in 1..Len(hist.dispatched) : hist.dispatched[i].line # <<"C">>

\* C39: a thread is started only by a job that completed with its file
\* closed, so a file that is open when the thread acts belongs to a job
\* started since; a step of the thread leaves that file open, file_position
\* as it is and the dispatch loop not asked to stop.
C39_LateResetSparesNewJob ==
    [][(ResetThreadStep /\ sd.current_file # None /\ NoCancelFromFile) =>
          /\ sd'.current_file = sd.current_file
          /\ sd'.file_position = sd.file_position
          /\ sd'.must_pause_work = sd.must_pause_work]_vars

\* Recovery failed partway: a line of the checkpoint file could not be
\* read, or the homing of cmd_CX_RESTORE_GCODE_STATE failed.
RecoveryFailed ==
    \/ NewestRecord(disk.ckpt.lines, BlankLine) = ReadFailed
    \/ hist.unrestored

\* The offsets the records of the checkpoint file hold.
RecordedOffsets ==
    {disk.ckpt.lines[i].file_position :
        i \in {k \in 1..Len(disk.ckpt.lines) :
                 disk.ckpt.lines[k].kind = "record"}}

\* C40: when the recovery of the one job started has failed partway and the
\* job has reached its loop, the job starts at no offset of the checkpoint
\* file: file_position is none of them before the first dispatch, and the
\* first line dispatched is at none of them.
C40_RecoveryAllOrNothing ==
    (OneJob /\ RecoveryFailed /\ wh.pc = "loop") =>
        IF hist.dispatched = <<>>
        THEN sd.file_position \notin RecordedOffsets
        ELSE hist.dispatched[1].pos \notin RecordedOffsets
====
